---- MODULE Spec2Model ----
(***************************************************************************)
(* RK3568_FaceApp: the face feature database (FaceDatabase.cpp), its       *)
(* cosine-similarity matcher and the enroll / recognize policy.            *)
(*                                                                         *)
(* The matcher computes in IEEE-754 binary32 (C++ float).  A float is      *)
(* modelled as <<s, m, e>> with value s * m * 2^e, s in {1,-1}, and either *)
(* m = 0 (zero) or 2^23 <= m < 2^24 (a normal number).  Every operation    *)
(* rounds to nearest, ties to even, as the hardware does.  The inputs of   *)
(* the model stay inside the normal range (no subnormal, infinity or NaN). *)
(***************************************************************************)
EXTENDS Integers, Naturals, Sequences, FiniteSets, TLC

----------------------------------------------------------------------------
(* binary32 arithmetic                                                     *)

RECURSIVE Pow2(_)
Pow2(n) == IF n = 0 THEN 1 ELSE 2 * Pow2(n - 1)

P12 == Pow2(12)
P22 == Pow2(22)
P23 == Pow2(23)
P24 == Pow2(24)

FZero == <<1, 0, 0>>

IsZero(a) == a[2] = 0

\* round q (with remainder rem out of 2*half) to nearest, ties to even
RoundEven(q, rem, half) ==
    IF rem > half \/ (rem = half /\ q % 2 = 1) THEN q + 1 ELSE q

\* a rounded significand q in 2^23..2^24 with its exponent: 2^24 carries over
Pack(s, q, e) == IF q = P24 THEN <<s, P23, e + 1>> ELSE <<s, q, e>>

\* s * m * 2^e with the low k bits of m rounded away
RoundShift(s, m, e, k) ==
    Pack(s, RoundEven(m \div Pow2(k), m % Pow2(k), Pow2(k - 1)), e + k)

\* the float nearest to s * m * 2^e, for any integer 0 <= m < 2^31
RECURSIVE Norm24(_, _, _)
Norm24(s, m, e) ==
    IF m = 0 THEN FZero
    ELSE IF m < P23 THEN Norm24(s, m * 2, e - 1)
    ELSE IF m < P24 THEN <<s, m, e>>
    ELSE RoundShift(s, m, e, CHOOSE j \in 1..8 : (m \div Pow2(j)) \in P23..(P24 - 1))

\* a small integer k scaled by 2^e, as a float (exact)
FromInt(k, e) == IF k < 0 THEN Norm24(-1, -k, e) ELSE Norm24(1, k, e)

\* the 48-bit product of two 24-bit integers, as <<hi, lo>> in base 2^24
Mul48(a, b) ==
    LET ah == a \div P12
        al == a % P12
        bh == b \div P12
        bl == b % P12
        mid == ah * bl + al * bh
        lo0 == (mid % P12) * P12 + al * bl
    IN  <<ah * bh + (mid \div P12) + (lo0 \div P24), lo0 % P24>>

Leq48(x, y) == x[1] < y[1] \/ (x[1] = y[1] /\ x[2] <= y[2])

\* s * p * 2^e for a 48-bit product p of two significands (p >= 2^46)
MulRound(s, p, e) ==
    IF p[1] >= P23
    THEN Pack(s, RoundEven(p[1], p[2], P23), e + 24)
    ELSE Pack(s, RoundEven(2 * p[1] + (p[2] \div P23), p[2] % P23, P22), e + 23)

\* float operator*
FMul(a, b) ==
    IF IsZero(a) \/ IsZero(b) THEN FZero
    ELSE MulRound(a[1] * b[1], Mul48(a[2], b[2]), a[3] + b[3])

\* q with the lowest bit set if any bit was lost
Sticky(q, lost) == IF lost # 0 THEN q - (q % 2) + 1 ELSE q

\* v shifted right by d bits, the lost bits or-ed into the lowest bit
ShiftSticky(v, d) ==
    IF d > 27 THEN 1 ELSE Sticky(v \div Pow2(d), v % Pow2(d))

\* |a| >= |b|
MagGeq(a, b) ==
    IF IsZero(b) THEN TRUE
    ELSE IF IsZero(a) THEN FALSE
    ELSE a[3] > b[3] \/ (a[3] = b[3] /\ a[2] >= b[2])

\* x + y for |x| >= |y| > 0 (three guard bits, sticky)
AddOrdered(x, y) ==
    Norm24(x[1], x[2] * 8 + (x[1] * y[1]) * ShiftSticky(y[2] * 8, x[3] - y[3]), x[3] - 3)

\* float operator+
FAdd(a, b) ==
    IF IsZero(a) THEN b
    ELSE IF IsZero(b) THEN a
    ELSE IF MagGeq(a, b) THEN AddOrdered(a, b)
    ELSE AddOrdered(b, a)

\* floor(sqrt(T)) for a 48-bit T = <<hi, lo>>, bit by bit from the top
RECURSIVE SqrtBits(_, _, _)
SqrtBits(T, r, bit) ==
    IF bit = 0 THEN r
    ELSE IF Leq48(Mul48(r + bit, r + bit), T)
         THEN SqrtBits(T, r + bit, bit \div 2)
         ELSE SqrtBits(T, r, bit \div 2)

\* sqrt(T) is nearer to r + 1 than to r = floor(sqrt(T)): r*r + r < T, sq = r*r
SqrtRoundsUp(T, r, sq) ==
    ~Leq48(T, <<sq[1] + ((sq[2] + r) \div P24), (sq[2] + r) % P24>>)

SqrtRound(T, r, ex) == Pack(1, IF SqrtRoundsUp(T, r, Mul48(r, r)) THEN r + 1 ELSE r, ex)

\* std::sqrt(float), a >= 0: a = T * 2^(2 * ex), T in [2^46, 2^48)
FSqrt(a) ==
    IF IsZero(a) THEN FZero
    ELSE IF (a[3] % 2) # 0
    THEN SqrtRound(<<a[2] \div 2, (a[2] % 2) * P23>>,
                   SqrtBits(<<a[2] \div 2, (a[2] % 2) * P23>>, 0, P23), (a[3] - 23) \div 2)
    ELSE SqrtRound(<<a[2], 0>>, SqrtBits(<<a[2], 0>>, 0, P23), (a[3] - 24) \div 2)

\* 24 quotient bits of rem / d by restoring division; yields <<q, 2 * remainder>>
RECURSIVE DivBits(_, _, _, _)
DivBits(rem, d, q, n) ==
    IF n = 0 THEN <<q, rem>>
    ELSE IF rem >= d THEN DivBits(2 * (rem - d), d, 2 * q + 1, n - 1)
         ELSE DivBits(2 * rem, d, 2 * q, n - 1)

\* the quotient bits qr = <<q, 2 * remainder>> of a division by d, rounded
DivRound(s, qr, d, ex) == Pack(s, RoundEven(qr[1], qr[2], d), ex)

\* float operator/, b # 0
FDiv(a, b) ==
    IF IsZero(a) THEN FZero
    ELSE IF a[2] >= b[2]
    THEN DivRound(a[1] * b[1], DivBits(a[2], b[2], 0, 24), b[2], a[3] - b[3] - 23)
    ELSE DivRound(a[1] * b[1], DivBits(2 * a[2], b[2], 0, 24), b[2], a[3] - b[3] - 24)

\* float operator<
FLess(a, b) ==
    IF IsZero(a) THEN (~IsZero(b) /\ b[1] = 1)
    ELSE IF IsZero(b) THEN a[1] = -1
    ELSE IF a[1] # b[1] THEN a[1] = -1
    ELSE IF a[1] = 1 THEN ~MagGeq(a, b)
    ELSE ~MagGeq(b, a)

FGeq(a, b) == ~FLess(a, b)

----------------------------------------------------------------------------
(* bounds and inputs                                                       *)

\* the most records the table holds in the model
MaxFaces == 2

\* std::vector<float> with small integer components scaled by 2^e
Vec(ks, e) == [i \in 1..Len(ks) |-> FromInt(ks[i], e)]

\* the feature vectors the callers pass in: the unit axes, a vector at
\* cosine exactly 0.6 of one axis and 0.8 of the other, an opposite vector,
\* the diagonal (cosine 0.707 of both axes), a vector at cosine 0.447 of one
\* axis, a non-zero vector of norm 2^-20 < 1e-6, a vector of another
\* dimension and the empty vector
Features ==
    { Vec(<<1, 0>>, 0), Vec(<<0, 1>>, 0), Vec(<<3, 4>>, 0), Vec(<<-1, 0>>, 0),
      Vec(<<1, 1>>, 0), Vec(<<1, 2>>, 0), Vec(<<1, 0>>, -20),
      Vec(<<1, 0, 0>>, 0), <<>> }

----------------------------------------------------------------------------
(* FaceDatabase: pure helpers                                              *)

\* const float SIMILARITY_THRESHOLD = 0.6f : the float nearest to 0.6
SIMILARITY_THRESHOLD == <<1, 10066330, -24>>

\* the smallest float that is not below the double 1e-6 (2^43 / 10^6 = 8796093.02...)
NORM_EPS == <<1, 8796094, -43>>

\* the four bytes of a float in memory (little-endian IEEE-754 binary32)
FloatBytes(f) ==
    IF IsZero(f) THEN <<0, 0, 0, 0>>
    ELSE LET E == f[3] + 150
             frac == f[2] - P23
             sgn == IF f[1] = -1 THEN 128 ELSE 0
         IN  <<frac % 256, (frac \div 256) % 256,
               (frac \div 65536) + 128 * (E % 2), (E \div 2) + sgn>>

\* BytesFloat reading the top bit of the last byte as part of the exponent
\* field instead of as the sign
BytesFloat_unsigned(b) ==
    LET E == 2 * (b[4] % 128) + (b[3] \div 128)
        frac == b[1] + 256 * b[2] + 65536 * (b[3] % 128)
    IN  IF E = 0 THEN FZero ELSE <<1, P23 + frac, E - 150>>

\* the float held in four bytes of memory
BytesFloat(b) ==
    LET E == 2 * (b[4] % 128) + (b[3] \div 128)
        frac == b[1] + 256 * b[2] + 65536 * (b[3] % 128)
        s == IF b[4] >= 128 THEN -1 ELSE 1
    IN  IF E = 0 THEN FZero ELSE <<s, P23 + frac, E - 150>>

\* std::memcpy of the first n bytes of a float array
MemcpyFloats(feature, n) ==
    [k \in 1..n |-> FloatBytes(feature[((k - 1) \div 4) + 1])[((k - 1) % 4) + 1]]

\* featureToBlob sizing the blob in floats instead of bytes
featureToBlob_countNotBytes(feature) == MemcpyFloats(feature, Len(feature))

featureToBlob(feature) == MemcpyFloats(feature, Len(feature) * 4)

blobToFeature(blob, size) ==
    LET float_count == size \div 4
    IN  [i \in 1..float_count |-> BytesFloat(SubSeq(blob, 4 * i - 3, 4 * i))]

\* one pass of the loop body over the elements x of feat1 and y of feat2
SimStep(acc, x, y) ==
    <<FAdd(acc[1], FMul(x, y)), FAdd(acc[2], FMul(x, x)), FAdd(acc[3], FMul(y, y))>>

\* the accumulation loop: <<dot_product, norm1, norm2>> after i elements
RECURSIVE SimLoop(_, _, _)
SimLoop(feat1, feat2, i) ==
    IF i = 0 THEN <<FZero, FZero, FZero>>
    ELSE SimStep(SimLoop(feat1, feat2, i - 1), feat1[i], feat2[i])

\* one run of the body of calculateSimilarity: the value returned, whether the
\* division was executed and the divisor norm1 * norm2 it was executed with
SimRun(returned, divided, divisor) ==
    [returned |-> returned, divided |-> divided, divisor |-> divisor]

\* return dot_product / (norm1 * norm2), the product computed once
SimDivide(dot_product, divisor) == SimRun(FDiv(dot_product, divisor), TRUE, divisor)

\* SimGuard testing only the first norm
SimGuard_oneNorm(dot_product, norm1, norm2) ==
    IF FLess(norm1, NORM_EPS) THEN SimRun(FZero, FALSE, FZero)
    ELSE SimDivide(dot_product, FMul(norm1, norm2))

\* SimGuard dividing by norm1 * norm1
SimGuard_norm1Twice(dot_product, norm1, norm2) ==
    IF FLess(norm1, NORM_EPS) \/ FLess(norm2, NORM_EPS) THEN SimRun(FZero, FALSE, FZero)
    ELSE SimDivide(dot_product, FMul(norm1, norm1))

\* if (norm1 < 1e-6 || norm2 < 1e-6) return 0.0f; return dot_product / (norm1 * norm2);
SimGuard(dot_product, norm1, norm2) ==
    IF FLess(norm1, NORM_EPS) \/ FLess(norm2, NORM_EPS) THEN SimRun(FZero, FALSE, FZero)
    ELSE SimDivide(dot_product, FMul(norm1, norm2))

\* norm1 = std::sqrt(norm1); norm2 = std::sqrt(norm2); then the guard and the division
SimNorms(acc) == SimGuard(acc[1], FSqrt(acc[2]), FSqrt(acc[3]))

similarityRun(feat1, feat2) ==
    IF Len(feat1) # Len(feat2) \/ feat1 = <<>> THEN SimRun(FZero, FALSE, FZero)
    ELSE SimNorms(SimLoop(feat1, feat2, Len(feat1)))

calculateSimilarity(feat1, feat2) == similarityRun(feat1, feat2).returned

----------------------------------------------------------------------------
(* FaceDatabase: state                                                     *)

VARIABLES
    is_init,    \* FaceDatabase::is_init
    db,         \* FaceDatabase::db : "null" or "open"
    faces,      \* table faces of face_database.db, rows <<id, feature blob>> in rowid order
    sqlite_sequence,  \* AUTOINCREMENT counter row of faces in sqlite_sequence (0: no row)
    storage,    \* what SQLite can do at present: "ok", "locked", "nomem", "full"
    last,       \* the last call of the public interface and its outcome
    issued,     \* history: the ids successful enrollFace calls have returned
    sim,        \* the last direct evaluation of calculateSimilarity
    ctx,        \* RetinaFace::ctx : 0 or the handle rknn_init gave
    model_data, \* RetinaFace::model_data : "loaded" or "null"
    priors,     \* RetinaFace::priors : the anchors <<cx, cy, s_kx, s_ky>>
    scene,      \* the frame the camera holds and the network outputs for it
    tensors,    \* the output tensors of the RetinaFace model: their number and rows
    shot,       \* the last call of RetinaFace and its outcome
    m_cap,      \* CameraManager::m_cap : "closed" or "open"
    m_stopThread,    \* CameraManager::m_stopThread
    m_currentFrame,  \* CameraManager::m_currentFrame : the pixel buffer of the header
    tempFrame,  \* the local tempFrame of run() : the pixel buffer of the header
    m_mutex,    \* CameraManager::m_mutex : "none" or its holder, "run" or "ui"
    pixels,     \* the content of each pixel buffer
    frame_no,   \* the frames the camera has delivered
    run_pc,     \* where the capture thread is in run() ("off": not running)
    ui_pc,      \* where the calling thread is in a call of CameraManager
    ui_caller,  \* the call of the calling thread that is in closeCamera
    outputFrame,     \* the outputFrame of the last getLatestFrame
    got,        \* what the last getLatestFrame returned: "true", "false", "none" before it has
    calls,      \* the enrollFace calls of two concurrent callers
    mfn_is_init,     \* MobileFaceNet::is_init
    queue,      \* the clicks waiting in the event queue of the GUI thread
    acts,       \* the button slots that have been called and have not returned
    clicks,     \* the clicks so far
    promptLabel,     \* the text of ui->promptLabel
    finished    \* the last run of a button slot that returned

dbVars == <<is_init, db, faces, sqlite_sequence, storage, last, issued, sim>>

retinaVars == <<ctx, model_data, priors, scene, tensors, shot>>

cameraVars == <<m_cap, m_stopThread, m_currentFrame, tempFrame, m_mutex, pixels, frame_no,
                run_pc, ui_pc, ui_caller, outputFrame, got>>

\* the state outside FaceDatabase and RetinaFace
raceVars == <<calls>>

uiVars == <<mfn_is_init, queue, acts, clicks, promptLabel, finished>>

appVars == <<cameraVars, raceVars, uiVars>>

\* the state outside CameraManager
nonCameraVars == <<dbVars, retinaVars, raceVars, uiVars>>

vars == <<dbVars, retinaVars, appVars>>

\* the message strings of FaceDatabase.cpp
MSG_NOT_INIT == "database not initialized"      \* "数据库未初始化"
MSG_EMPTY == "feature vector is empty"          \* "特征向量为空"
MSG_DUPLICATE == "do not enroll twice"          \* "请不要重复录入"
MSG_PREPARE == "preparing SQL statement failed" \* "准备SQL语句失败"
MSG_BIND == "binding parameter failed"          \* "绑定参数失败"
MSG_STEP == "inserting data failed"             \* "插入数据失败"
MSG_ENROLLED == "enrolled, number"              \* "录入成功，序号: " + id
MSG_YOU_ARE == "you are number"                 \* "你是" + id + "号"
MSG_NO_MATCH == "please enroll first"           \* "请先录入人脸"

\* sqlite3_prepare_v2 / sqlite3_exec return SQLITE_OK
PrepareOk == storage # "locked"
\* sqlite3_bind_blob returns SQLITE_OK
BindOk == storage # "nomem"
\* sqlite3_step of the INSERT returns SQLITE_DONE
StepOk == storage # "full"

Max(a, b) == IF a >= b THEN a ELSE b

\* the rowid SQLite gives the next row of an AUTOINCREMENT table
NextRowid ==
    LET top == IF faces = <<>> THEN 0 ELSE faces[Len(faces)][1]
    IN  Max(sqlite_sequence, top) + 1

\* ScanUpdate assigning best_id at every row, outside the comparison
ScanUpdate_idEveryRow(best, id, similarity) ==
    IF FLess(best[2], similarity) THEN <<id, similarity>> ELSE <<id, best[2]>>

\* ScanUpdate comparing with >= instead of >
ScanUpdate_geq(best, id, similarity) ==
    IF FGeq(similarity, best[2]) THEN <<id, similarity>> ELSE best

\* if (similarity > max_similarity) { max_similarity = similarity; best_id = id; }
ScanUpdate(best, id, similarity) ==
    IF FLess(best[2], similarity) THEN <<id, similarity>> ELSE best

\* one row of the SELECT: best = <<best_id, max_similarity>> so far
ScanRow(best, id, blob, feature) ==
    IF Len(blob) > 0
    THEN ScanUpdate(best, id, calculateSimilarity(feature, blobToFeature(blob, Len(blob))))
    ELSE best

\* the scan of findMostSimilar over rows 1..n: <<best_id, max_similarity>>
RECURSIVE ScanRows(_, _)
ScanRows(feature, n) ==
    IF n = 0 THEN <<-1, FZero>>
    ELSE ScanRow(ScanRows(feature, n - 1), faces[n][1], faces[n][2], feature)

\* findMostSimilar never writing its output parameter max_similarity
findMostSimilar_noOutput(feature, max_similarity) ==
    IF ~is_init \/ db = "null" THEN <<-1, max_similarity>>
    ELSE IF ~PrepareOk THEN <<-1, max_similarity>>
    ELSE <<ScanRows(feature, Len(faces))[1], max_similarity>>

\* <<returned id, max_similarity>>; max_similarity keeps the caller's value
\* when the function returns before the scan
findMostSimilar(feature, max_similarity) ==
    IF ~is_init \/ db = "null" THEN <<-1, max_similarity>>
    ELSE IF ~PrepareOk THEN <<-1, max_similarity>>
    ELSE ScanRows(feature, Len(faces))

\* enrollIsDuplicate comparing with > instead of >=
enrollIsDuplicate_strict(similar_id, max_similarity) ==
    similar_id > 0 /\ FLess(SIMILARITY_THRESHOLD, max_similarity)

\* enrollFace: similar_id > 0 && max_similarity >= SIMILARITY_THRESHOLD
enrollIsDuplicate(similar_id, max_similarity) ==
    similar_id > 0 /\ FGeq(max_similarity, SIMILARITY_THRESHOLD)

\* recognizeFace: similar_id > 0 && max_similarity >= SIMILARITY_THRESHOLD
recognizeIsMatch(similar_id, max_similarity) ==
    similar_id > 0 /\ FGeq(max_similarity, SIMILARITY_THRESHOLD)

\* found: what findMostSimilar handed back in the call, <<>> if it was not called
Outcome(op, feature, ret, message, found) ==
    [op |-> op, feature |-> feature, ret |-> ret, message |-> message, found |-> found]

\* no call since the object was constructed or the environment changed
NoCall == Outcome("none", <<>>, 0, "", <<>>)

\* inputs ks * 2^e drawn for a direct evaluation of calculateSimilarity, not yet run
SimInput(ks1, e1, ks2, e2) ==
    [ks1 |-> ks1, e1 |-> e1, ks2 |-> ks2, e2 |-> e2, called |-> FALSE,
     run |-> SimRun(FZero, FALSE, FZero)]

NoSim == SimInput(<<>>, 0, <<>>, 0)

----------------------------------------------------------------------------
(* RetinaFace: the anchor table                                            *)

\* const int MODEL_WIDTH = 320; const int MODEL_HEIGHT = 320;
MODEL_WIDTH == 320
MODEL_HEIGHT == 320

\* int strides[] = {8, 16, 32};
strides == <<8, 16, 32>>

\* min_sizes = {{16.0f, 32.0f}, {64.0f, 128.0f}, {256.0f, 512.0f}}
min_sizes == <<<<16, 32>>, <<64, 128>>, <<256, 512>>>>

\* 0.5f
FHalf == FromInt(1, -1)

\* (int)ceil(f) for a float f >= 0
FCeilInt(f) ==
    IF IsZero(f) THEN 0
    ELSE IF f[3] >= 0 THEN f[2] * Pow2(f[3])
    ELSE IF f[3] < -30 THEN 1
    ELSE (f[2] \div Pow2(-f[3])) + (IF f[2] % Pow2(-f[3]) # 0 THEN 1 ELSE 0)

\* (int)ceil(MODEL_WIDTH / (float)stride)
FeatureSize(dim, stride) == FCeilInt(FDiv(FromInt(dim, 0), FromInt(stride, 0)))

\* (j + 0.5f) * stride / MODEL_WIDTH
PriorCenter(j, stride, dim) ==
    FDiv(FMul(FAdd(FromInt(j, 0), FHalf), FromInt(stride, 0)), FromInt(dim, 0))

\* Prior with the centre taken from (row, column) instead of (column, row)
Prior_rowColumn(k, i, j, min_size) ==
    << PriorCenter(i, strides[k], MODEL_WIDTH), PriorCenter(j, strides[k], MODEL_HEIGHT),
       FDiv(FromInt(min_size, 0), FromInt(MODEL_WIDTH, 0)),
       FDiv(FromInt(min_size, 0), FromInt(MODEL_HEIGHT, 0)) >>

\* priors.push_back({cx, cy, s_kx, s_ky}) for cell (i, j) of level k and one min_size
Prior(k, i, j, min_size) ==
    << PriorCenter(j, strides[k], MODEL_WIDTH), PriorCenter(i, strides[k], MODEL_HEIGHT),
       FDiv(FromInt(min_size, 0), FromInt(MODEL_WIDTH, 0)),
       FDiv(FromInt(min_size, 0), FromInt(MODEL_HEIGHT, 0)) >>

\* the two inner loops, for (j = 0; j < feature_w; j++) for (min_size : min_sizes[k]):
\* the priors pushed for row i, the n-th one from column (n-1) / |min_sizes[k]|
ColsLoop(k, i, feature_w) ==
    [n \in 1..(feature_w * Len(min_sizes[k])) |->
        Prior(k, i, (n - 1) \div Len(min_sizes[k]),
              min_sizes[k][((n - 1) % Len(min_sizes[k])) + 1])]

\* for (int i = 0; i < feature_h; i++): the priors pushed for rows 0..i-1 of level k
RECURSIVE RowsLoop(_, _, _)
RowsLoop(k, i, feature_w) ==
    IF i = 0 THEN <<>>
    ELSE RowsLoop(k, i - 1, feature_w) \o ColsLoop(k, i - 1, feature_w)

\* for (int k = 0; k < 3; k++): the priors pushed for the first k levels
RECURSIVE LevelsLoop(_)
LevelsLoop(k) ==
    IF k = 0 THEN <<>>
    ELSE LevelsLoop(k - 1) \o RowsLoop(k, FeatureSize(MODEL_HEIGHT, strides[k]),
                                       FeatureSize(MODEL_WIDTH, strides[k]))

\* what the loop nest of initPriors pushes (it reads no state)
PushedPriors == LevelsLoop(Len(strides))

\* initPriors without priors.clear()
initPriors_noClear(old) == old \o PushedPriors

\* void RetinaFace::initPriors(): the new value of priors (priors.clear(), then the loops)
initPriors(old) == <<>> \o PushedPriors

----------------------------------------------------------------------------
(* RetinaFace: decoding the network outputs                                *)

\* float variance[2] = {0.1f, 0.2f}
VARIANCE0 == <<1, 13421773, -27>>
VARIANCE1 == <<1, 13421773, -26>>

FNeg(a) == <<-a[1], a[2], a[3]>>

\* float operator-
FSub(a, b) == FAdd(a, IF IsZero(b) THEN b ELSE FNeg(b))

\* exp() of a float; the network outputs of the model keep the size
\* regressions loc[2], loc[3] at zero, where exp is exactly 1
FExp(x) == CASE IsZero(x) -> FromInt(1, 0)

\* conversion of a float to int (towards zero), as in the assignment to cv::Rect fields
FTruncInt(f) ==
    IF IsZero(f) THEN 0
    ELSE IF f[3] >= 0 THEN f[1] * f[2] * Pow2(f[3])
    ELSE IF f[3] < -30 THEN 0
    ELSE f[1] * (f[2] \div Pow2(-f[3]))

\* an output buffer of the network: the entries of the anchors in DOMAIN out, zero elsewhere
\* out_score[n], out_loc[n], out_landm[n] for a flat index n
out_score(out, n) ==
    IF (n \div 2) \in DOMAIN out THEN out[n \div 2].score[(n % 2) + 1] ELSE FZero

out_loc(out, n) ==
    IF (n \div 4) \in DOMAIN out THEN out[n \div 4].loc[(n % 4) + 1] ELSE FZero

out_landm(out, n) ==
    IF (n \div 10) \in DOMAIN out THEN out[n \div 10].landm[(n % 10) + 1] ELSE FZero

\* cv::Mat as far as the program reads it here: its size
Mat(cols, rows) == [cols |-> cols, rows |-> rows]

EmptyMat == Mat(0, 0)

\* prior_c + l * variance[0] * prior_s
DecodeCenter(prior_c, l, prior_s) == FAdd(prior_c, FMul(FMul(l, VARIANCE0), prior_s))

\* prior_s * exp(l * variance[1])
DecodeSize(prior_s, l) == FMul(prior_s, FExp(FMul(l, VARIANCE1)))

\* face.box.x = (cx - w / 2.0f) * scale_w
BoxOrigin(c, s, scale) == FTruncInt(FMul(FSub(c, FDiv(s, FromInt(2, 0))), scale))

\* face.box.width = w * scale_w
BoxExtent(s, scale) == FTruncInt(FMul(s, scale))

\* struct FaceInfo
FaceInfo(box, score, landmarks) == [box |-> box, score |-> score, landmarks |-> landmarks]

\* cv::Rect from the decoded centre (cx, cy) and size (w, h)
DecodeBox(cx, cy, w, h, scale_w, scale_h) ==
    <<BoxOrigin(cx, w, scale_w), BoxOrigin(cy, h, scale_h),
      BoxExtent(w, scale_w), BoxExtent(h, scale_h)>>

\* landmark k (from 0) of anchor i: <<lcx * scale_w, lcy * scale_h>>
DecodeLandmark(prior, out_landm_buf, i, k, scale_w, scale_h) ==
    << FMul(DecodeCenter(prior[1], out_landm(out_landm_buf, i * 10 + k * 2), prior[3]), scale_w),
       FMul(DecodeCenter(prior[2], out_landm(out_landm_buf, i * 10 + k * 2 + 1), prior[4]), scale_h) >>

\* the body of the anchor loop for an anchor i that passes the threshold
DecodeProposal(prior, out, i, score, scale_w, scale_h) ==
    FaceInfo(DecodeBox(DecodeCenter(prior[1], out_loc(out, i * 4), prior[3]),
                       DecodeCenter(prior[2], out_loc(out, i * 4 + 1), prior[4]),
                       DecodeSize(prior[3], out_loc(out, i * 4 + 2)),
                       DecodeSize(prior[4], out_loc(out, i * 4 + 3)),
                       scale_w, scale_h),
             score,
             [k \in 1..5 |-> DecodeLandmark(prior, out, i, k - 1, scale_w, scale_h)])

\* if (score < 0.5f) continue, reading the background channel
PassesThreshold_background(out, i) == ~FLess(out_score(out, i * 2), FHalf)

\* score = out_score[i * 2 + 1]; if (score < 0.5f) continue;
PassesThreshold(out, i) == ~FLess(out_score(out, i * 2 + 1), FHalf)

\* the anchors of the loop for (i = 0; i < num_priors; i++) that reach push_back
Emitted(out, num_priors) == {i \in 0..(num_priors - 1) : PassesThreshold(out, i)}

SetMax(S) == CHOOSE x \in S : \A y \in S : y <= x

\* DecodeLoop taking the anchor and the landmarks of the next index
RECURSIVE DecodeLoop_nextAnchor(_, _, _, _, _)
DecodeLoop_nextAnchor(pr, out, todo, scale_w, scale_h) ==
    IF todo = {} THEN <<>>
    ELSE Append(DecodeLoop_nextAnchor(pr, out, todo \ {SetMax(todo)}, scale_w, scale_h),
                DecodeProposal(pr[((SetMax(todo) + 1) % Len(pr)) + 1], out, SetMax(todo) + 1,
                               out_score(out, SetMax(todo) * 2 + 1), scale_w, scale_h))

\* proposals after the loop has passed the anchors todo, in increasing i
RECURSIVE DecodeLoop(_, _, _, _, _)
DecodeLoop(pr, out, todo, scale_w, scale_h) ==
    IF todo = {} THEN <<>>
    ELSE Append(DecodeLoop(pr, out, todo \ {SetMax(todo)}, scale_w, scale_h),
                DecodeProposal(pr[SetMax(todo) + 1], out, SetMax(todo),
                               out_score(out, SetMax(todo) * 2 + 1), scale_w, scale_h))

----------------------------------------------------------------------------
(* RetinaFace: cv::dnn::NMSBoxes, face selection, alignment                *)

\* cv::Rect_<int>::area() of a box <<x, y, width, height>>
RectArea(r) == r[3] * r[4]

Min(a, b) == IF a <= b THEN a ELSE b

\* cv::Rect a & b, from the corners of the intersection
RectFromCorners(x1, y1, x2, y2) ==
    IF x2 - x1 <= 0 \/ y2 - y1 <= 0 THEN <<0, 0, 0, 0>> ELSE <<x1, y1, x2 - x1, y2 - y1>>

RectIntersect(a, b) ==
    RectFromCorners(Max(a[1], b[1]), Max(a[2], b[2]),
                    Min(a[1] + a[3], b[1] + b[3]), Min(a[2] + a[4], b[2] + b[4]))

\* 1.f - (float)jaccardDistance(a, b) > 0.4f from the areas Aa, Ab and Aab of the
\* intersection.  jaccardDistance is 0 when Aa + Ab <= 0 and 1 - Aab / (Aa + Ab - Aab)
\* (in double) otherwise.  The float test holds iff (float)distance < 0.6f, i.e. iff
\* Aab / U exceeds the real value of 0.4f = 0.4 + 5.96e-9; for a union U below 2^24 no
\* ratio of integers lies between 2/5 and that value, so the test is 5 * Aab > 2 * U.
OverlapExceeds(Aa, Ab, Aab) ==
    IF Aa + Ab <= 0 THEN TRUE ELSE 5 * Aab > 2 * (Aa + Ab - Aab)

\* rectOverlap(a, b) > nms_threshold
RectOverlapExceeds(a, b) ==
    OverlapExceeds(RectArea(a), RectArea(b), RectArea(RectIntersect(a, b)))

\* GetMaxScoreIndex admitting scores[i] >= threshold
ScoreIndexSet_inclusive(scores, threshold) ==
    {i \in 1..Len(scores) : ~FLess(scores[i], threshold)}

\* GetMaxScoreIndex: the indices with scores[i] > threshold
ScoreIndexSet(scores, threshold) == {i \in 1..Len(scores) : FLess(threshold, scores[i])}

\* the element std::stable_sort by descending score puts first: the highest
\* score, the lowest index among equal scores
FirstByScore(scores, S) ==
    CHOOSE i \in S : \A j \in S : FLess(scores[j], scores[i]) \/ (scores[j] = scores[i] /\ i <= j)

\* std::stable_sort(score_index_vec, SortScorePairDescend)
RECURSIVE SortByScore(_, _)
SortByScore(scores, S) ==
    IF S = {} THEN <<>>
    ELSE <<FirstByScore(scores, S)>> \o SortByScore(scores, S \ {FirstByScore(scores, S)})

\* NMSStep keeping a box that overlaps a kept one
NMSStep_keepAll(bboxes, kept, idx) == Append(kept, idx)

\* one pass of the loop of NMSFast_: idx is kept unless it overlaps a kept box
NMSStep(bboxes, kept, idx) ==
    IF \E n \in 1..Len(kept) : RectOverlapExceeds(bboxes[idx], bboxes[kept[n]])
    THEN kept
    ELSE Append(kept, idx)

\* NMSFast_ over the first n entries of the sorted index vector
RECURSIVE NMSLoop(_, _, _)
NMSLoop(bboxes, order, n) ==
    IF n = 0 THEN <<>> ELSE NMSStep(bboxes, NMSLoop(bboxes, order, n - 1), order[n])

\* cv::dnn::NMSBoxes(bboxes, scores, score_threshold, nms_threshold, indices), eta = 1, top_k = 0
NMSSorted(bboxes, order) == NMSLoop(bboxes, order, Len(order))

NMSBoxes(bboxes, scores, score_threshold) ==
    NMSSorted(bboxes, SortByScore(scores, ScoreIndexSet(scores, score_threshold)))

\* for (int idx : indices) faces.push_back(proposals[idx]);
PushKept(proposals, indices) == [n \in 1..Len(indices) |-> proposals[indices[n]]]

\* detect from the NMS on: the faces appended to the caller's vector
DetectFaces(proposals) ==
    PushKept(proposals,
             NMSBoxes([n \in 1..Len(proposals) |-> proposals[n].box],
                      [n \in 1..Len(proposals) |-> proposals[n].score], FHalf))

\* one run of detect: its return value, the proposals and the faces pushed
DetectRun(ret, proposals, pushed) == [ret |-> ret, proposals |-> proposals, pushed |-> pushed]

DetectDecoded(proposals) == DetectRun(0, proposals, DetectFaces(proposals))

\* MaxStep with the comparison a.box.area() <= b.box.area()
MaxStep_orEqual(fs, largest, n) ==
    IF RectArea(fs[largest].box) <= RectArea(fs[n].box) THEN n ELSE largest

\* std::max_element: if (comp(*largest, *first)) largest = first, with the
\* comparison a.box.area() < b.box.area()
MaxStep(fs, largest, n) ==
    IF RectArea(fs[largest].box) < RectArea(fs[n].box) THEN n ELSE largest

\* std::max_element over the first n elements of a non-empty vector: the index it returns
RECURSIVE MaxElementLoop(_, _)
MaxElementLoop(fs, n) ==
    IF n = 1 THEN 1 ELSE MaxStep(fs, MaxElementLoop(fs, n - 1), n)

MaxElement(fs) == MaxElementLoop(fs, Len(fs))

\* static float REFERENCE_PTS_112[5][2]
REFERENCE_PTS_112 ==
    << <<<<1, 10038700, -18>>, <<1, 13551875, -18>>>>,
       <<<<1, 9637960, -17>>, <<1, 13500783, -18>>>>,
       <<<<1, 14686670, -18>>, <<1, 9402660, -17>>>>,
       <<<<1, 10891900, -18>>, <<1, 12106531, -17>>>>,
       <<<<1, 9270709, -17>>, <<1, 12085376, -17>>>> >>

\* cv::estimateAffinePartial2D(src_pts, dst_pts) returns a non-empty matrix: RANSAC
\* over pairs of points finds a model with two inliers iff two source points differ
\* (the reference points all differ)
estimateAffinePartial2D(src_pts, dst_pts) ==
    \E a, b \in 1..Len(src_pts) : src_pts[a] # src_pts[b] /\ dst_pts[a] # dst_pts[b]

\* preprocessFace leaving the image unwarped
preprocessFace_noWarp(img, landmarks) ==
    IF estimateAffinePartial2D(landmarks, REFERENCE_PTS_112) THEN img ELSE EmptyMat

\* cv::Mat RetinaFace::preprocessFace(img, landmarks)
preprocessFace(img, landmarks) ==
    IF estimateAffinePartial2D(landmarks, REFERENCE_PTS_112) THEN Mat(112, 112) ELSE EmptyMat

----------------------------------------------------------------------------
(* RetinaFace: inputs                                                      *)

\* the most anchors the network reports anything for in one frame
MaxHot == 3

\* the anchors the network may report for: the first cell with both its sizes
\* and the 32-pixel anchors of the next two cells of the first row
HotAnchors == {0, 1, 3, 5}

NoRegression == [n \in 1..4 |-> FZero]

ShiftRegression == <<FromInt(1, 0), FromInt(-1, 0), FZero, FZero>>

\* five landmark offsets on one point, and spread around the anchor centre
LandmJoint == [n \in 1..10 |-> FZero]

LandmSpread ==
    << FromInt(-1, 0), FromInt(-1, 0), FromInt(1, 0), FromInt(-1, 0), FZero, FZero,
       FromInt(-1, 0), FromInt(1, 0), FromInt(1, 0), FromInt(1, 0) >>

\* what the network reports for one anchor: score = <<background, face>>
Entry(bg8, face8, loc, landm) ==
    [score |-> <<FromInt(bg8, -3), FromInt(face8, -3)>>, loc |-> loc, landm |-> landm]

\* face scores 0.25 (below the threshold), 0.5 (on it), 0.625, 0.75 and 0.875
Entries ==
    { Entry(6, 2, NoRegression, LandmSpread), Entry(4, 4, ShiftRegression, LandmJoint),
      Entry(3, 5, NoRegression, LandmSpread), Entry(2, 6, NoRegression, LandmJoint),
      Entry(1, 7, NoRegression, LandmSpread) }

\* a frame of the camera (has_frame: getLatestFrame returns true) and the
\* network outputs for it
Scene(has_frame, frame, out) == [has_frame |-> has_frame, frame |-> frame, out |-> out]

Outputs ==
    UNION { [hot -> Entries] : hot \in {h \in SUBSET HotAnchors : Cardinality(h) <= MaxHot} }

\* the camera holds no frame yet, an empty one, or one of 1280x720 pixels (the
\* width CameraManager asks for) with the outputs the network gives for it
Scenes ==
    {Scene(FALSE, EmptyMat, <<>>), Scene(TRUE, EmptyMat, <<>>)}
        \cup {Scene(TRUE, Mat(1280, 720), out) : out \in Outputs}

NoScene == Scene(FALSE, EmptyMat, <<>>)

\* the output tensors rknn_outputs_get fills: io_num.n_output of them, each with one
\* row per anchor of the model file
Tensors(n_output, rows) == [n_output |-> n_output, rows |-> rows]

\* "outputs[0] -> Location [1, 4200, 4], outputs[1] -> Score, outputs[2] -> Landmark"
WellShaped == Tensors(3, Len(PushedPriors))

\* model files whose outputs do not fit: no landmark tensor, a row less, a row more
Misshaped ==
    {Tensors(2, Len(PushedPriors)), Tensors(3, Len(PushedPriors) - 1),
     Tensors(3, Len(PushedPriors) + 1)}

\* the scenes tried with a model file whose outputs do not fit: at most one anchor reported
FewScenes == {sc \in Scenes : Cardinality(DOMAIN sc.out) <= 1}

\* a scene and the shape of the tensors of the model file
RetinaInputs ==
    {<<sc, WellShaped>> : sc \in Scenes} \cup {<<sc, t>> : sc \in FewScenes, t \in Misshaped}

\* detect reads outputs[2].buf and num_priors rows of each buffer whatever io_num and
\* the tensors hold.  With fewer than three tensors outputs[2] lies past the array
\* outputs[io_num.n_output], with fewer rows the last anchors lie past the buffers:
\* the reads are undefined, they give any values or end the process.  BufferReads is
\* the set of contents the loop may read
LandmRead(out, landm) == [a \in DOMAIN out |-> [out[a] EXCEPT !.landm = landm]]

BufferReads(out, t, num_priors) ==
    IF t.n_output < 3 THEN {LandmRead(out, landm) : landm \in {LandmJoint, LandmSpread}}
    ELSE IF t.rows < num_priors
    THEN {out} \cup {out @@ ((num_priors - 1) :> e) : e \in Entries}
    ELSE {out}

\* a read past the array or the buffers may end the process
ReadsPastEnd(t, num_priors) == t.n_output < 3 \/ t.rows < num_priors

\* detect was not called
NoRun == DetectRun(0, <<>>, <<>>)

\* the last call of RetinaFace: init (ret) or getAlignedFaceFromCamera (whether
\* detect was called, its run, the index of bestFace in faces, the image returned)
Shot(op, ret, detected, run, best, aligned) ==
    [op |-> op, ret |-> ret, detected |-> detected, run |-> run, best |-> best,
     aligned |-> aligned]

NoShot == Shot("none", 0, FALSE, NoRun, 0, EmptyMat)

\* the process was ended by a signal inside detect
Crashed == Shot("crashed", 0, TRUE, NoRun, 0, EmptyMat)

\* the RetinaFace object as constructed without a model file, no frame in the camera
RetinaIdle ==
    /\ ctx = 0
    /\ model_data = "null"
    /\ priors = <<>>
    /\ scene = NoScene
    /\ tensors = WellShaped
    /\ shot = NoShot

\* the most frames the camera delivers
MaxFrame == 3

\* the pixel buffers cv::Mat headers refer to (0: the header of an empty Mat)
Buffers == {1, 2}

\* the content of a pixel buffer: the frame each of its two halves is from
Pixels(top, bottom) == <<top, bottom>>

\* CameraManager::CameraManager has run: QThread(parent), m_stopThread(false)
CameraIdle ==
    /\ m_cap = "closed"
    /\ m_stopThread = FALSE
    /\ m_currentFrame = 0
    /\ tempFrame = 0
    /\ m_mutex = "none"
    /\ pixels = [b \in Buffers |-> Pixels(0, 0)]
    /\ frame_no = 0
    /\ run_pc = "off"
    /\ ui_pc = "idle"
    /\ ui_caller = "none"
    /\ outputFrame = Pixels(0, 0)
    /\ got = "none"

\* the threads that call enrollFace
Callers == {1, 2}

\* a caller's place in enrollFace, its argument, its locals similar_id and
\* max_similarity (<<>> before findMostSimilar has returned) and what it returned
Call(pc, feature, found, ret) == [pc |-> pc, feature |-> feature, found |-> found, ret |-> ret]

NoCalls == [t \in Callers |-> Call("idle", <<>>, <<>>, 0)]

\* no caller is inside enrollFace
RaceIdle == calls = NoCalls

\* the most clicks on the two buttons
MaxClicks == 3

\* the run of a button slot: its place, its locals alignedFace, ret and feature, the
\* calls it has made and the texts it has set on promptLabel
Act(button, pc, alignedFace, ret, feature, called, said) ==
    [button |-> button, pc |-> pc, alignedFace |-> alignedFace, ret |-> ret,
     feature |-> feature, called |-> called, said |-> said]

NoAct == Act("none", "returned", EmptyMat, 0, <<>>, <<>>, <<>>)

\* no button has been clicked
SlotsIdle ==
    /\ queue = <<>>
    /\ acts = <<>>
    /\ clicks = 0
    /\ promptLabel = ""
    /\ finished = NoAct

\* MobileFaceNet::MobileFaceNet has run (ctx(0), is_init(false)), no button clicked
UiIdle ==
    /\ mfn_is_init = FALSE
    /\ SlotsIdle

----------------------------------------------------------------------------
(* FaceDatabase: operations                                                *)

Init ==
    /\ is_init = FALSE
    /\ db = "null"
    /\ faces = <<>>
    /\ sqlite_sequence = 0
    /\ storage = "ok"
    /\ last = NoCall
    /\ issued = {}
    /\ sim = NoSim
    /\ RetinaIdle
    /\ CameraIdle
    /\ RaceIdle
    /\ UiIdle

\* int FaceDatabase::init(db_path)
init ==
    /\ IF is_init
       THEN /\ last' = Outcome("init", <<>>, 0, "", <<>>)
            /\ UNCHANGED <<is_init, db>>
       ELSE IF storage = "nomem"
       THEN \* sqlite3_open fails
            /\ last' = Outcome("init", <<>>, -1, "", <<>>)
            /\ UNCHANGED <<is_init, db>>
       ELSE IF ~PrepareOk
       THEN \* createTable fails
            /\ db' = "open"
            /\ last' = Outcome("init", <<>>, -1, "", <<>>)
            /\ UNCHANGED is_init
       ELSE /\ db' = "open"
            /\ is_init' = TRUE
            /\ last' = Outcome("init", <<>>, 0, "", <<>>)
    /\ UNCHANGED <<faces, sqlite_sequence, storage, issued, sim, retinaVars, appVars>>

\* enrollInsert running the INSERT before the duplicate test
enrollInsert_insertFirst(feature, found) ==
    IF ~PrepareOk \/ ~BindOk \/ ~StepOk
    THEN /\ last' = Outcome("enroll", feature, -1, MSG_STEP, found)
         /\ UNCHANGED <<faces, sqlite_sequence, issued>>
    ELSE /\ faces' = Append(faces, <<NextRowid, featureToBlob(feature)>>)
         /\ sqlite_sequence' = NextRowid
         /\ IF enrollIsDuplicate(found[1], found[2])
            THEN /\ last' = Outcome("enroll", feature, -1, MSG_DUPLICATE, found)
                 /\ UNCHANGED issued
            ELSE /\ last' = Outcome("enroll", feature, NextRowid, MSG_ENROLLED, found)
                 /\ issued' = issued \cup {NextRowid}

\* enrollFace from the duplicate check on; found = <<similar_id, max_similarity>>
enrollInsert(feature, found) ==
    IF enrollIsDuplicate(found[1], found[2])
    THEN /\ last' = Outcome("enroll", feature, -1, MSG_DUPLICATE, found)
         /\ UNCHANGED <<faces, sqlite_sequence, issued>>
    ELSE IF ~PrepareOk
    THEN /\ last' = Outcome("enroll", feature, -1, MSG_PREPARE, found)
         /\ UNCHANGED <<faces, sqlite_sequence, issued>>
    ELSE IF ~BindOk
    THEN /\ last' = Outcome("enroll", feature, -1, MSG_BIND, found)
         /\ UNCHANGED <<faces, sqlite_sequence, issued>>
    ELSE IF ~StepOk
    THEN /\ last' = Outcome("enroll", feature, -1, MSG_STEP, found)
         /\ UNCHANGED <<faces, sqlite_sequence, issued>>
    ELSE /\ faces' = Append(faces, <<NextRowid, featureToBlob(feature)>>)
         /\ sqlite_sequence' = NextRowid
         /\ issued' = issued \cup {NextRowid}
         /\ last' = Outcome("enroll", feature, NextRowid, MSG_ENROLLED, found)

\* int FaceDatabase::enrollFace(feature, message): what it does to the database
enrollFaceRun(feature) ==
    /\ Len(faces) < MaxFaces
    /\ IF ~is_init \/ db = "null"
       THEN /\ last' = Outcome("enroll", feature, -1, MSG_NOT_INIT, <<>>)
            /\ UNCHANGED <<faces, sqlite_sequence, issued>>
       ELSE IF feature = <<>>
       THEN /\ last' = Outcome("enroll", feature, -1, MSG_EMPTY, <<>>)
            /\ UNCHANGED <<faces, sqlite_sequence, issued>>
       ELSE enrollInsert(feature, findMostSimilar(feature, FZero))
    /\ UNCHANGED <<is_init, db, storage, sim>>

\* a call of enrollFace
enrollFace(feature) ==
    /\ enrollFaceRun(feature)
    /\ UNCHANGED <<retinaVars, appVars>>

\* recognizeFace from the threshold test on; found = <<similar_id, max_similarity>>
recognizeAnswer(feature, found) ==
    IF recognizeIsMatch(found[1], found[2])
    THEN last' = Outcome("recognize", feature, found[1], MSG_YOU_ARE, found)
    ELSE last' = Outcome("recognize", feature, -1, MSG_NO_MATCH, found)

\* recognizeFace without the is_init / db check
recognizeFace_noInitCheck(feature) ==
    /\ IF feature = <<>>
       THEN last' = Outcome("recognize", feature, -1, MSG_EMPTY, <<>>)
       ELSE recognizeAnswer(feature, findMostSimilar(feature, FZero))
    /\ UNCHANGED <<is_init, db, faces, sqlite_sequence, storage, issued, sim, retinaVars, appVars>>

\* int FaceDatabase::recognizeFace(feature, message): what it does to the database
recognizeFaceRun(feature) ==
    /\ IF ~is_init \/ db = "null"
       THEN last' = Outcome("recognize", feature, -1, MSG_NOT_INIT, <<>>)
       ELSE IF feature = <<>>
       THEN last' = Outcome("recognize", feature, -1, MSG_EMPTY, <<>>)
       ELSE recognizeAnswer(feature, findMostSimilar(feature, FZero))
    /\ UNCHANGED <<is_init, db, faces, sqlite_sequence, storage, issued, sim>>

\* a call of recognizeFace
recognizeFace(feature) ==
    /\ recognizeFaceRun(feature)
    /\ UNCHANGED <<retinaVars, appVars>>

\* clearAll without the DELETE FROM sqlite_sequence
clearAll_keepSequence ==
    /\ IF ~is_init \/ db = "null"
       THEN UNCHANGED <<faces, sqlite_sequence>>
       ELSE IF PrepareOk /\ StepOk
            THEN /\ faces' = <<>>
                 /\ UNCHANGED sqlite_sequence
            ELSE UNCHANGED <<faces, sqlite_sequence>>
    /\ last' = Outcome("clearAll", <<>>, 0, "", <<>>)
    /\ UNCHANGED <<is_init, db, storage, issued, sim, retinaVars, appVars>>

\* void FaceDatabase::clearAll()
clearAll ==
    /\ IF ~is_init \/ db = "null"
       THEN UNCHANGED <<faces, sqlite_sequence>>
       ELSE \* DELETE FROM faces; DELETE FROM sqlite_sequence WHERE name='faces';
            IF PrepareOk /\ StepOk
            THEN /\ faces' = <<>>
                 /\ sqlite_sequence' = 0
            ELSE UNCHANGED <<faces, sqlite_sequence>>
    /\ last' = Outcome("clearAll", <<>>, 0, "", <<>>)
    /\ UNCHANGED <<is_init, db, storage, issued, sim, retinaVars, appVars>>

\* int FaceDatabase::getFaceCount()
getFaceCount ==
    /\ IF ~is_init \/ db = "null" THEN last' = Outcome("count", <<>>, 0, "", <<>>)
       ELSE IF ~PrepareOk THEN last' = Outcome("count", <<>>, 0, "", <<>>)
       ELSE last' = Outcome("count", <<>>, Len(faces), "", <<>>)
    /\ UNCHANGED <<is_init, db, faces, sqlite_sequence, storage, issued, sim, retinaVars, appVars>>

\* ~MainWindow deletes the FaceDatabase (sqlite3_close); the next run of the
\* program constructs a new one over the same face_database.db
Restart ==
    /\ is_init' = FALSE
    /\ db' = "null"
    /\ last' = NoCall
    /\ UNCHANGED <<faces, sqlite_sequence, storage, issued, sim, retinaVars, appVars>>

\* the environment: the database file gets locked, memory or disk runs out, or recovers
StorageChange ==
    /\ storage' \in {"ok", "locked", "nomem", "full"} \ {storage}
    /\ last' = NoCall
    /\ UNCHANGED <<is_init, db, faces, sqlite_sequence, issued, sim, retinaVars, appVars>>

Next ==
    \/ init
    \/ \E feature \in Features : enrollFace(feature)
    \/ \E feature \in Features : recognizeFace(feature)
    \/ clearAll
    \/ getFaceCount
    \/ Restart
    \/ StorageChange

Spec == Init /\ [][Next]_vars

----------------------------------------------------------------------------
(* calculateSimilarity on its own                                          *)

\* the largest absolute component of the integer vectors tried
MaxComp == 2

Comps == (0 - MaxComp)..MaxComp

\* integer vectors of dimension 0, 1 and 2, and one of dimension 3
IntVecs ==
    {<<>>, <<1, 0, 0>>} \cup {<<x>> : x \in Comps}
        \cup {<<x, y>> : x \in Comps, y \in Comps}

\* the binary exponents the integer vectors are scaled by (2^-20 < 1e-6 < 2^-19)
Scales == {0, -20}

\* one evaluation of calculateSimilarity on the inputs drawn
Similarity ==
    /\ ~sim.called
    /\ sim' = [sim EXCEPT !.called = TRUE,
                          !.run = similarityRun(Vec(sim.ks1, sim.e1), Vec(sim.ks2, sim.e2))]
    /\ UNCHANGED <<is_init, db, faces, sqlite_sequence, storage, last, issued, retinaVars, appVars>>

InitSim ==
    /\ is_init = FALSE
    /\ db = "null"
    /\ faces = <<>>
    /\ sqlite_sequence = 0
    /\ storage = "ok"
    /\ last = NoCall
    /\ issued = {}
    /\ sim \in {SimInput(ks1, e1, ks2, e2) :
                   ks1 \in IntVecs, e1 \in Scales, ks2 \in IntVecs, e2 \in Scales}
    /\ RetinaIdle
    /\ CameraIdle
    /\ RaceIdle
    /\ UiIdle

NextSim == Similarity

SpecSim == InitSim /\ [][NextSim]_vars

----------------------------------------------------------------------------
(* RetinaFace: operations                                                  *)

\* int RetinaFace::detect(inputImg, faces); resized: imresize returns IM_STATUS_SUCCESS
detect(inputImg, out, resized) ==
    IF ctx = 0 THEN DetectRun(-1, <<>>, <<>>)
    ELSE IF ~resized THEN DetectRun(-1, <<>>, <<>>)
    ELSE DetectDecoded(DecodeLoop(priors, out, Emitted(out, Len(priors)),
                                  FromInt(inputImg.cols, 0), FromInt(inputImg.rows, 0)))

\* RetinaFace::RetinaFace has run, nothing else
RetinaConstructed(data) ==
    /\ ctx = 0
    /\ model_data = data
    /\ priors = <<>>
    /\ shot = NoShot

\* int RetinaFace::init(); rknn_ok: rknn_init returns >= 0
RetinaFace_init ==
    /\ shot.op # "crashed"
    /\ IF model_data = "null"
       THEN /\ shot' = Shot("init", -1, FALSE, NoRun, 0, EmptyMat)
            /\ UNCHANGED <<ctx, priors>>
       ELSE \E rknn_ok \in BOOLEAN :
              IF ~rknn_ok
              THEN /\ shot' = Shot("init", -1, FALSE, NoRun, 0, EmptyMat)
                   /\ UNCHANGED <<ctx, priors>>
              ELSE /\ ctx' = 1
                   /\ priors' = initPriors(priors)
                   /\ shot' = Shot("init", 0, FALSE, NoRun, 0, EmptyMat)
    /\ UNCHANGED <<model_data, scene, tensors>>
    /\ UNCHANGED <<dbVars, appVars>>

\* getAlignedFaceFromCamera from the choice of bestFace on
AlignBest(frame, run, best) ==
    Shot("aligned", 0, TRUE, run, best, preprocessFace(frame, run.pushed[best].landmarks))

\* getAlignedFaceFromCamera after detect(frame, faces), whose return value is dropped
AlignDetected(frame, run) ==
    IF run.pushed = <<>> THEN Shot("aligned", 0, TRUE, run, 0, EmptyMat)
    ELSE AlignBest(frame, run, MaxElement(run.pushed))

\* detect(frame, faces) inside getAlignedFaceFromCamera: it runs on what it reads from
\* the output buffers, or the process ends in a read past their end
DetectReads(frame, read, resized) ==
    \/ shot' = AlignDetected(frame, detect(frame, read, resized))
    \/ /\ ctx # 0
       /\ resized
       /\ ReadsPastEnd(tensors, Len(priors))
       /\ shot' = Crashed

\* cv::Mat RetinaFace::getAlignedFaceFromCamera(camera): what it does to the RetinaFace;
\* resized: the RGA resize in detect works
getAlignedFaceRun(resized) ==
    /\ shot.op # "crashed"
    /\ IF ~scene.has_frame \/ scene.frame = EmptyMat
       THEN shot' = Shot("aligned", 0, FALSE, NoRun, 0, EmptyMat)
       ELSE \E read \in BufferReads(scene.out, tensors, Len(priors)) :
              DetectReads(scene.frame, read, resized)
    /\ UNCHANGED <<ctx, model_data, priors, scene, tensors>>

\* a call of getAlignedFaceFromCamera
getAlignedFaceFromCamera ==
    /\ \E resized \in BOOLEAN : getAlignedFaceRun(resized)
    /\ UNCHANGED <<dbVars, appVars>>

InitRetina ==
    /\ is_init = FALSE
    /\ db = "null"
    /\ faces = <<>>
    /\ sqlite_sequence = 0
    /\ storage = "ok"
    /\ last = NoCall
    /\ issued = {}
    /\ sim = NoSim
    /\ \E input \in RetinaInputs : scene = input[1] /\ tensors = input[2]
    /\ \E data \in {"loaded", "null"} : RetinaConstructed(data)
    /\ CameraIdle
    /\ RaceIdle
    /\ UiIdle

NextRetina ==
    \/ RetinaFace_init
    \/ getAlignedFaceFromCamera

SpecRetina == InitRetina /\ [][NextRetina]_vars

----------------------------------------------------------------------------
(* CameraManager: the capture thread and the calls of the algorithm layer  *)

\* QThread::start(): run() begins unless the thread is running
Start(pc) == IF pc = "off" THEN "test" ELSE pc

\* bool CameraManager::openCamera(deviceId), up to m_cap.open: an open device is
\* closed first, by closeCamera(), whose first statement is m_stopThread = true
openCamera ==
    /\ ui_pc = "idle"
    /\ IF m_cap = "open"
       THEN /\ m_stopThread' = TRUE
            /\ ui_pc' = "close_wait"
            /\ ui_caller' = "openCamera"
       ELSE /\ ui_pc' = "open"
            /\ UNCHANGED <<m_stopThread, ui_caller>>
    /\ UNCHANGED <<m_cap, m_currentFrame, tempFrame, m_mutex, pixels, frame_no, run_pc,
                   outputFrame, got>>
    /\ UNCHANGED nonCameraVars

\* openCamera from m_cap.open(deviceId) on: return false, or m_stopThread = false; start()
openCamera_open ==
    /\ ui_pc = "open"
    /\ \E opened \in BOOLEAN :
         IF opened
         THEN /\ m_cap' = "open"
              /\ m_stopThread' = FALSE
              /\ run_pc' = Start(run_pc)
         ELSE /\ m_cap' = "closed"
              /\ UNCHANGED <<m_stopThread, run_pc>>
    /\ ui_pc' = "idle"
    /\ ui_caller' = "none"
    /\ UNCHANGED <<m_currentFrame, tempFrame, m_mutex, pixels, frame_no, outputFrame, got>>
    /\ UNCHANGED nonCameraVars

\* void CameraManager::closeCamera(): m_stopThread = true
closeCamera ==
    /\ ui_pc = "idle"
    /\ m_stopThread' = TRUE
    /\ ui_pc' = "close_wait"
    /\ ui_caller' = "closeCamera"
    /\ UNCHANGED <<m_cap, m_currentFrame, tempFrame, m_mutex, pixels, frame_no, run_pc,
                   outputFrame, got>>
    /\ UNCHANGED nonCameraVars

\* the places of run() inside m_cap.read(tempFrame)
InRead == {"read", "retrieve"}

\* wait(1000) returns false: the thread did not finish within a second.  Every step
\* of the loop but m_cap.read is short (msleep(16), a conversion); the read blocks
\* until the device delivers a frame
WaitTimesOut == run_pc \in InRead

\* closeCamera: if (isRunning()) wait(1000), which returns when run() has returned
\* or the second is over
closeCamera_wait ==
    /\ ui_pc = "close_wait"
    /\ run_pc = "off" \/ WaitTimesOut
    /\ ui_pc' = "close_release"
    /\ UNCHANGED <<m_cap, m_stopThread, m_currentFrame, tempFrame, m_mutex, pixels, frame_no,
                   run_pc, ui_caller, outputFrame, got>>
    /\ UNCHANGED nonCameraVars

\* closeCamera: if (m_cap.isOpened()) m_cap.release(), and the return to the caller
closeCamera_release ==
    /\ ui_pc = "close_release"
    /\ m_cap' = "closed"
    /\ IF ui_caller = "openCamera"
       THEN ui_pc' = "open" /\ UNCHANGED ui_caller
       ELSE ui_pc' = "idle" /\ ui_caller' = "none"
    /\ UNCHANGED <<m_stopThread, m_currentFrame, tempFrame, m_mutex, pixels, frame_no, run_pc,
                   outputFrame, got>>
    /\ UNCHANGED nonCameraVars

\* bool CameraManager::getLatestFrame(outputFrame): QMutexLocker, return false for an
\* empty m_currentFrame, else the first half of m_currentFrame.clone()
getLatestFrame ==
    /\ ui_pc = "idle"
    /\ m_mutex = "none"
    /\ IF m_currentFrame = 0
       THEN /\ got' = "false"
            /\ UNCHANGED <<m_mutex, outputFrame, ui_pc>>
       ELSE /\ m_mutex' = "ui"
            /\ outputFrame' = Pixels(pixels[m_currentFrame][1], 0)
            /\ got' = "none"
            /\ ui_pc' = "clone"
    /\ UNCHANGED <<m_cap, m_stopThread, m_currentFrame, tempFrame, pixels, frame_no, run_pc,
                   ui_caller>>
    /\ UNCHANGED nonCameraVars

\* getLatestFrame: the second half of the clone, return true, the locker unlocks
getLatestFrame_clone ==
    /\ ui_pc = "clone"
    /\ outputFrame' = Pixels(outputFrame[1],
                             IF m_currentFrame = 0 THEN 0 ELSE pixels[m_currentFrame][2])
    /\ m_mutex' = "none"
    /\ got' = "true"
    /\ ui_pc' = "idle"
    /\ UNCHANGED <<m_cap, m_stopThread, m_currentFrame, tempFrame, pixels, frame_no, run_pc,
                   ui_caller>>
    /\ UNCHANGED nonCameraVars

\* void CameraManager::run(): while (!m_stopThread); the local tempFrame ends with run
run_test ==
    /\ run_pc = "test"
    /\ IF m_stopThread
       THEN run_pc' = "off" /\ tempFrame' = 0
       ELSE run_pc' = "read" /\ UNCHANGED tempFrame
    /\ UNCHANGED <<m_cap, m_stopThread, m_currentFrame, m_mutex, pixels, frame_no,
                   ui_pc, ui_caller, outputFrame, got>>
    /\ UNCHANGED nonCameraVars

\* the buffer cv::Mat::create gives a header of the frame's size and type: the one
\* it has, whoever shares it, or a new one for an empty header
ReadTarget(header, other) == IF header # 0 THEN header ELSE IF other = 1 THEN 2 ELSE 1

\* run: m_cap.read(tempFrame) fails, or gives an empty frame (the header is
\* released), or starts to write the next frame into the buffer of tempFrame
run_read ==
    /\ run_pc = "read"
    /\ \E delivered \in BOOLEAN :
         IF delivered /\ m_cap = "open" /\ frame_no < MaxFrame
         THEN /\ frame_no' = frame_no + 1
              /\ tempFrame' = ReadTarget(tempFrame, m_currentFrame)
              /\ pixels' = [pixels EXCEPT ![ReadTarget(tempFrame, m_currentFrame)][1] =
                                               frame_no + 1]
              /\ run_pc' = "retrieve"
         ELSE /\ tempFrame' = 0
              /\ run_pc' = "test"
              /\ UNCHANGED <<frame_no, pixels>>
    /\ UNCHANGED <<m_cap, m_stopThread, m_currentFrame, m_mutex, ui_pc, ui_caller,
                   outputFrame, got>>
    /\ UNCHANGED nonCameraVars

\* run: m_cap.read writes the rest of the frame and returns true
run_retrieve ==
    /\ run_pc = "retrieve"
    /\ pixels' = [pixels EXCEPT ![tempFrame][2] = frame_no]
    /\ run_pc' = "lock"
    /\ UNCHANGED <<m_cap, m_stopThread, m_currentFrame, tempFrame, m_mutex, frame_no,
                   ui_pc, ui_caller, outputFrame, got>>
    /\ UNCHANGED nonCameraVars

\* run: QMutexLocker locker(&m_mutex)
run_lock ==
    /\ run_pc = "lock"
    /\ m_mutex = "none"
    /\ m_mutex' = "run"
    /\ run_pc' = "store"
    /\ UNCHANGED <<m_cap, m_stopThread, m_currentFrame, tempFrame, pixels, frame_no,
                   ui_pc, ui_caller, outputFrame, got>>
    /\ UNCHANGED nonCameraVars

\* run: m_currentFrame = tempFrame (cv::Mat::operator= shares the buffer), unlock
run_store ==
    /\ run_pc = "store"
    /\ m_currentFrame' = tempFrame
    /\ m_mutex' = "none"
    /\ run_pc' = "emit"
    /\ UNCHANGED <<m_cap, m_stopThread, tempFrame, pixels, frame_no, ui_pc, ui_caller,
                   outputFrame, got>>
    /\ UNCHANGED nonCameraVars

\* run: matToQImage(tempFrame), emit newFrameCaptured(image), msleep(16)
run_emit ==
    /\ run_pc = "emit"
    /\ run_pc' = "test"
    /\ UNCHANGED <<m_cap, m_stopThread, m_currentFrame, tempFrame, m_mutex, pixels, frame_no,
                   ui_pc, ui_caller, outputFrame, got>>
    /\ UNCHANGED nonCameraVars

InitCamera ==
    /\ is_init = FALSE
    /\ db = "null"
    /\ faces = <<>>
    /\ sqlite_sequence = 0
    /\ storage = "ok"
    /\ last = NoCall
    /\ issued = {}
    /\ sim = NoSim
    /\ RetinaIdle
    /\ CameraIdle
    /\ RaceIdle
    /\ UiIdle

NextCamera ==
    \/ openCamera
    \/ openCamera_open
    \/ closeCamera
    \/ closeCamera_wait
    \/ closeCamera_release
    \/ getLatestFrame
    \/ getLatestFrame_clone
    \/ run_test
    \/ run_read
    \/ run_retrieve
    \/ run_lock
    \/ run_store
    \/ run_emit

SpecCamera == InitCamera /\ [][NextCamera]_vars

----------------------------------------------------------------------------
(* FaceDatabase: two threads inside enrollFace at once                     *)

\* the duplicate test scanning the table again, at the time of the INSERT
CheckedResult_recheck(t) == findMostSimilar(calls[t].feature, FZero)

\* the similar_id and max_similarity the duplicate test of caller t reads: the locals
\* findMostSimilar filled
CheckedResult(t) == calls[t].found

\* enrollFace of caller t up to the return of findMostSimilar
enroll_check(t, feature) ==
    /\ calls[t].pc = "idle"
    /\ IF ~is_init \/ db = "null"
       THEN /\ calls' = [calls EXCEPT ![t] = Call("done", feature, <<>>, -1)]
            /\ last' = Outcome("enroll", feature, -1, MSG_NOT_INIT, <<>>)
       ELSE IF feature = <<>>
       THEN /\ calls' = [calls EXCEPT ![t] = Call("done", feature, <<>>, -1)]
            /\ last' = Outcome("enroll", feature, -1, MSG_EMPTY, <<>>)
       ELSE /\ calls' = [calls EXCEPT ![t] =
                            Call("checked", feature, findMostSimilar(feature, FZero), 0)]
            /\ UNCHANGED last
    /\ UNCHANGED <<is_init, db, faces, sqlite_sequence, storage, issued, sim>>
    /\ UNCHANGED <<retinaVars, cameraVars, uiVars>>

\* enrollFace of caller t from the duplicate test to its return
enroll_insert(t) ==
    /\ calls[t].pc = "checked"
    /\ enrollInsert(calls[t].feature, CheckedResult(t))
    /\ calls' = [calls EXCEPT ![t].pc = "done", ![t].ret = last'.ret]
    /\ UNCHANGED <<is_init, db, storage, sim>>
    /\ UNCHANGED <<retinaVars, cameraVars, uiVars>>

\* the database before the two calls: not initialised, empty, or with one record
InitRace ==
    /\ \/ /\ is_init = FALSE
          /\ db = "null"
          /\ faces = <<>>
          /\ sqlite_sequence = 0
          /\ issued = {}
       \/ /\ is_init = TRUE
          /\ db = "open"
          /\ \/ /\ faces = <<>>
                /\ sqlite_sequence = 0
                /\ issued = {}
             \/ /\ faces = << <<1, featureToBlob(Vec(<<0, 1>>, 0))>> >>
                /\ sqlite_sequence = 1
                /\ issued = {1}
    /\ storage \in {"ok", "locked", "nomem", "full"}
    /\ last = NoCall
    /\ sim = NoSim
    /\ RetinaIdle
    /\ CameraIdle
    /\ calls = NoCalls
    /\ UiIdle

NextRace ==
    \/ \E t \in Callers : \E feature \in Features : enroll_check(t, feature)
    \/ \E t \in Callers : enroll_insert(t)

SpecRace == InitRace /\ [][NextRace]_vars

----------------------------------------------------------------------------
(* MainWindow: the slots of the two buttons                                *)

\* the texts the slots set on promptLabel themselves
MSG_SYSTEM == "system not initialised"            \* "系统初始化异常，请检查"
MSG_NO_FACE == "no face, face the camera"         \* "未检测到人脸，请正对摄像头"
MSG_NO_FACE_ENTRY == "no face, come closer"       \* "未检测到人脸，请靠近并正对摄像头"
MSG_EXTRACT == "feature extraction failed"        \* "特征提取失败，请重试"

Buttons == {"btnRecognize", "btnEntry"}

\* m_retinaface, m_mobilefacenet and m_facedb are set by the constructor, with new
PointersSet == TRUE

\* the event loop calling a slot from inside a running slot
DispatchReady_nested == Len(acts) < 2

\* the event loop of the GUI thread delivers an event when the slot before has returned
DispatchReady == acts = <<>>

\* the slot going on whatever extractFeature returned
ExtractFailed_never(ret, feature) == FALSE

\* if (ret != 0 || feature.empty())
ExtractFailed(ret, feature) == ret # 0 \/ feature = <<>>

\* the slot that runs: the last one called
Top == acts[Len(acts)]

\* a local or the place of the running slot changes
Goes(act) == acts' = [acts EXCEPT ![Len(acts)] = act]

\* ui->promptLabel->setText(text); return
Says(act, text) ==
    /\ promptLabel' = text
    /\ finished' = [act EXCEPT !.pc = "returned", !.said = Append(act.said, text)]
    /\ acts' = SubSeq(acts, 1, Len(acts) - 1)

\* the sum of the squares of the components, in float
RECURSIVE SumSquares(_, _)
SumSquares(v, n) ==
    IF n = 0 THEN FZero ELSE FAdd(SumSquares(v, n - 1), FMul(v[n], v[n]))

\* cv::normalize(feat_mat, feat_mat, 1.0, 0, cv::NORM_L2): every component times
\* 1 / norm, or times 0 for a norm of 0
normalize(v) ==
    IF IsZero(SumSquares(v, Len(v)))
    THEN [i \in 1..Len(v) |-> FZero]
    ELSE [i \in 1..Len(v) |-> FMul(v[i], FDiv(FromInt(1, 0), FSqrt(SumSquares(v, Len(v)))))]

\* what rknn_outputs_get of the MobileFaceNet model gives: its return value and the
\* output_attrs[0].n_elems floats of outputs[0].buf
MfnOutput(ret, out_data) == [ret |-> ret, out_data |-> out_data]

MfnOutputs ==
    {MfnOutput(-1, <<>>), MfnOutput(0, <<>>)} \cup
    {MfnOutput(0, Vec(ks, 0)) : ks \in {<<1, 0>>, <<0, 2>>, <<-2, 0>>, <<0, 0>>}}

\* the user clicks a button: the event waits in the queue of the GUI thread
click(button) ==
    /\ clicks < MaxClicks
    /\ clicks' = clicks + 1
    /\ queue' = Append(queue, button)
    /\ UNCHANGED <<mfn_is_init, acts, promptLabel, finished>>
    /\ UNCHANGED <<dbVars, retinaVars, cameraVars, raceVars>>

\* on_btnRecognize_clicked / on_btnEntry_clicked is called: the check of the pointers
on_btn_clicked ==
    /\ DispatchReady
    /\ queue # <<>>
    /\ queue' = Tail(queue)
    /\ IF ~PointersSet
       THEN /\ promptLabel' = MSG_SYSTEM
            /\ finished' = Act(Head(queue), "returned", EmptyMat, 0, <<>>, <<>>, <<MSG_SYSTEM>>)
            /\ UNCHANGED acts
       ELSE /\ acts' = Append(acts, Act(Head(queue), "align", EmptyMat, 0, <<>>, <<>>, <<>>))
            /\ UNCHANGED <<promptLabel, finished>>
    /\ UNCHANGED <<mfn_is_init, clicks>>
    /\ UNCHANGED <<dbVars, retinaVars, cameraVars, raceVars>>

\* detect gets as far as rknn_inputs_set: there is a frame, a context, and the resize worked
StartsInference(resized) ==
    /\ scene.has_frame
    /\ scene.frame # EmptyMat
    /\ ctx # 0
    /\ resized

\* the slot calls getAlignedFaceFromCamera, which returns without inference or gets
\* as far as rknn_inputs_set of RetinaFace::detect
on_btn_align ==
    /\ acts # <<>>
    /\ Top.pc = "align"
    /\ \E resized \in BOOLEAN :
         IF StartsInference(resized)
         THEN /\ Goes([Top EXCEPT !.pc = "detect", !.called = Append(Top.called, "align")])
              /\ UNCHANGED retinaVars
         ELSE /\ getAlignedFaceRun(resized)
              /\ Goes([Top EXCEPT !.pc = "aligned", !.called = Append(Top.called, "align"),
                                  !.alignedFace = shot'.aligned])
    /\ UNCHANGED <<mfn_is_init, queue, clicks, promptLabel, finished>>
    /\ UNCHANGED <<dbVars, cameraVars, raceVars>>

\* detect from rknn_run on and the rest of getAlignedFaceFromCamera
on_btn_detect ==
    /\ acts # <<>>
    /\ Top.pc = "detect"
    /\ getAlignedFaceRun(TRUE)
    /\ Goes([Top EXCEPT !.pc = "aligned", !.alignedFace = shot'.aligned])
    /\ UNCHANGED <<mfn_is_init, queue, clicks, promptLabel, finished>>
    /\ UNCHANGED <<dbVars, cameraVars, raceVars>>

\* if (alignedFace.empty()) ... return, else the slot calls extractFeature, which
\* returns -1 without inference or gets as far as rknn_inputs_set
on_btn_extract ==
    /\ acts # <<>>
    /\ Top.pc = "aligned"
    /\ IF Top.alignedFace = EmptyMat
       THEN Says(Top, IF Top.button = "btnEntry" THEN MSG_NO_FACE_ENTRY ELSE MSG_NO_FACE)
       ELSE /\ IF ~mfn_is_init
               THEN Goes([Top EXCEPT !.pc = "extracted", !.ret = -1,
                                     !.called = Append(Top.called, "extract")])
               ELSE Goes([Top EXCEPT !.pc = "infer",
                                     !.called = Append(Top.called, "extract")])
            /\ UNCHANGED <<promptLabel, finished>>
    /\ UNCHANGED <<mfn_is_init, queue, clicks>>
    /\ UNCHANGED <<dbVars, retinaVars, cameraVars, raceVars>>

\* extractFeature from rknn_run on
on_btn_infer ==
    /\ acts # <<>>
    /\ Top.pc = "infer"
    /\ \E out \in MfnOutputs :
         IF out.ret < 0
         THEN Goes([Top EXCEPT !.pc = "extracted", !.ret = -1])
         ELSE Goes([Top EXCEPT !.pc = "extracted", !.ret = 0,
                               !.feature = normalize(out.out_data)])
    /\ UNCHANGED <<mfn_is_init, queue, clicks, promptLabel, finished>>
    /\ UNCHANGED <<dbVars, retinaVars, cameraVars, raceVars>>

\* if (ret != 0 || feature.empty()) ... return, else recognizeFace or enrollFace and
\* its message on promptLabel
on_btn_database ==
    /\ acts # <<>>
    /\ Top.pc = "extracted"
    /\ IF ExtractFailed(Top.ret, Top.feature)
       THEN /\ Says(Top, MSG_EXTRACT)
            /\ UNCHANGED dbVars
       ELSE IF Top.button = "btnEntry"
       THEN /\ enrollFaceRun(Top.feature)
            /\ Says([Top EXCEPT !.called = Append(Top.called, "enrollFace")], last'.message)
       ELSE /\ recognizeFaceRun(Top.feature)
            /\ Says([Top EXCEPT !.called = Append(Top.called, "recognizeFace")], last'.message)
    /\ UNCHANGED <<mfn_is_init, queue, clicks>>
    /\ UNCHANGED <<retinaVars, cameraVars, raceVars>>

\* the scenes in front of the camera when a button is clicked: no frame yet, nobody,
\* one face whose landmarks fall on one point, one face with landmarks spread
UiScenes ==
    {NoScene} \cup
    {Scene(TRUE, Mat(1280, 720), out) :
        out \in UNION {[hot -> {Entry(2, 6, NoRegression, LandmJoint),
                                Entry(1, 7, NoRegression, LandmSpread)}] : hot \in {{}, {0}}}}

\* the application after MainWindow::MainWindow: each of the three init calls has
\* worked or failed, the camera shows one of a few scenes
InitUi ==
    /\ \/ /\ is_init = FALSE
          /\ db = "null"
       \/ /\ is_init = TRUE
          /\ db = "open"
    /\ faces = <<>>
    /\ sqlite_sequence = 0
    /\ storage = "ok"
    /\ last = NoCall
    /\ issued = {}
    /\ sim = NoSim
    /\ \/ /\ ctx = 0
          /\ priors = <<>>
       \/ /\ ctx = 1
          /\ priors = PushedPriors
    /\ model_data = "loaded"
    /\ scene \in UiScenes
    /\ tensors = WellShaped
    /\ shot = NoShot
    /\ CameraIdle
    /\ RaceIdle
    /\ mfn_is_init \in BOOLEAN
    /\ SlotsIdle

NextUi ==
    \/ \E button \in Buttons : click(button)
    \/ on_btn_clicked
    \/ on_btn_align
    \/ on_btn_detect
    \/ on_btn_extract
    \/ on_btn_infer
    \/ on_btn_database

SpecUi == InitUi /\ [][NextUi]_vars


----------------------------------------------------------------------------
(* properties of calculateSimilarity (checked under SpecSim)               *)

FOne == FromInt(1, 0)

RECURSIVE SumSq(_)
SumSq(ks) == IF ks = <<>> THEN 0 ELSE Head(ks) * Head(ks) + SumSq(Tail(ks))

\* the exact norm of the integer vector ks * 2^e is below 1e-6:
\* SumSq * 10^12 < 2^(-2e), i.e. SumSq * 5^12 < 2^(-2e - 12), with 5^12 = 244140625
NormBelowEps(ks, e) ==
    IF 0 - 2 * e - 12 < 0 THEN SumSq(ks) = 0
    ELSE SumSq(ks) <= (Pow2(0 - 2 * e - 12) - 1) \div 244140625

\* C7: calculateSimilarity returns exactly 0 whenever a or b is empty, their
\* dimensions differ or one of them has norm below 1e-6, and it executes the
\* division only with both norms at least 1e-6 and a divisor that is not zero
C7_ZeroGuard ==
    sim.called =>
        /\ (\/ sim.ks1 = <<>>
            \/ sim.ks2 = <<>>
            \/ Len(sim.ks1) # Len(sim.ks2)
            \/ NormBelowEps(sim.ks1, sim.e1)
            \/ NormBelowEps(sim.ks2, sim.e2))
              => (sim.run.returned = FZero /\ ~sim.run.divided)
        /\ sim.run.divided =>
              /\ ~NormBelowEps(sim.ks1, sim.e1)
              /\ ~NormBelowEps(sim.ks2, sim.e2)
              /\ ~IsZero(sim.run.divisor)

\* a non-zero vector of norm below 1e-6 against a vector of ordinary norm gave 0
C7_Witness ==
    /\ sim.called
    /\ Len(sim.ks1) = Len(sim.ks2)
    /\ SumSq(sim.ks1) > 0
    /\ NormBelowEps(sim.ks1, sim.e1)
    /\ ~NormBelowEps(sim.ks2, sim.e2)
    /\ sim.run.returned = FZero
    /\ ~sim.run.divided

SameInput == sim.ks1 = sim.ks2 /\ sim.e1 = sim.e2

Symmetric ==
    sim.run.returned = calculateSimilarity(Vec(sim.ks2, sim.e2), Vec(sim.ks1, sim.e1))

----------------------------------------------------------------------------
(* properties of the database operations (checked under Spec)              *)

\* the database is initialised and SQLite answers every call with success
Ready == is_init /\ db = "open" /\ storage = "ok"

Rows == 1..Len(faces)

Ids == {faces[i][1] : i \in Rows}

\* the feature vector held by row i
StoredFeature(i) == blobToFeature(faces[i][2], Len(faces[i][2]))

\* the similarity of feature f to row i
SimTo(f, i) == calculateSimilarity(f, StoredFeature(i))

\* row i has the largest similarity to f, and no earlier row has the same
FirstBest(f, i) ==
    /\ \A j \in Rows : ~FLess(SimTo(f, i), SimTo(f, j))
    /\ \A j \in Rows : j < i => SimTo(f, j) # SimTo(f, i)

\* some row matches f: similarity at least the threshold
HasMatch(f) == \E i \in Rows : faces[i][1] > 0 /\ FGeq(SimTo(f, i), SIMILARITY_THRESHOLD)

\* C1: enrollFace(query) on a ready database with a non-empty query: when a
\* stored record with id > 0 has similarity >= 0.6 the call returns -1 as a
\* duplicate and writes nothing; otherwise exactly one record holding query is
\* appended and its new id (> 0, not in the table before) is returned
C1_EnrollContract ==
    [][ (last'.op = "enroll" /\ Ready /\ last'.feature # <<>>) =>
            IF HasMatch(last'.feature)
            THEN /\ last'.ret = -1
                 /\ last'.message = MSG_DUPLICATE
                 /\ faces' = faces
            ELSE /\ Len(faces') = Len(faces) + 1
                 /\ SubSeq(faces', 1, Len(faces)) = faces
                 /\ blobToFeature(faces'[Len(faces')][2], Len(faces'[Len(faces')][2]))
                        = last'.feature
                 /\ faces'[Len(faces')][1] = last'.ret
                 /\ last'.ret > 0
                 /\ last'.ret \notin Ids ]_vars

\* a query that is no copy of a stored record was rejected as its duplicate
C1_Witness ==
    /\ last.op = "enroll"
    /\ last.message = MSG_DUPLICATE
    /\ last.ret = -1
    /\ Len(faces) = 1
    /\ StoredFeature(1) # last.feature

C3_RecognizeBest ==
    [][ (last'.op = "recognize" /\ Ready /\ last'.feature # <<>>) =>
            /\ IF HasMatch(last'.feature)
               THEN /\ last'.message = MSG_YOU_ARE
                    /\ \E i \in Rows :
                          /\ faces[i][1] = last'.ret
                          /\ \A j \in Rows :
                                ~FLess(SimTo(last'.feature, i), SimTo(last'.feature, j))
               ELSE /\ last'.ret = -1
                    /\ last'.message = MSG_NO_MATCH
            /\ last'.ret = -1 \/ last'.ret \in Ids ]_vars

\* the second of two records was recognised
C3_Witness ==
    /\ last.op = "recognize"
    /\ Len(faces) = 2
    /\ last.ret = faces[2][1]
    /\ last.message = MSG_YOU_ARE

\* f has a component that is not zero
NonZero(f) == \E i \in 1..Len(f) : ~IsZero(f[i])

\* the norm of f as calculateSimilarity computes it is at least 1e-6
NormAtLeastEps(f) ==
    f # <<>> /\ ~FLess(FSqrt(SimLoop(f, f, Len(f))[2]), NORM_EPS)

\* the dot product of a and b is zero
Orthogonal(a, b) == Len(a) = Len(b) /\ IsZero(SimLoop(a, b, Len(a))[1])

\* the round trip for the features f1 that satisfy Usable
RoundTrip(Usable(_)) ==
    /\ \* enroll f1, matching no stored record: success with a new id k
       (last'.op = "enroll" /\ Ready /\ Usable(last'.feature) /\ ~HasMatch(last'.feature))
          => (last'.ret > 0 /\ last'.ret \notin Ids /\ last'.ret \in {r[1] : r \in
                 {faces'[i] : i \in 1..Len(faces')}})
    /\ \* recognize f1 immediately afterwards: returns k
       (last.op = "enroll" /\ last.ret > 0 /\ Usable(last.feature)
            /\ last'.op = "recognize" /\ last'.feature = last.feature)
          => last'.ret = last.ret
    /\ \* enroll f1 again: rejected as duplicate
       (last.op = "enroll" /\ last.ret > 0 /\ Usable(last.feature)
            /\ last'.op = "enroll" /\ last'.feature = last.feature)
          => (last'.ret = -1 /\ last'.message = MSG_DUPLICATE /\ faces' = faces)
    /\ \* recognize f2 orthogonal to every stored vector: no match
       (last'.op = "recognize" /\ Ready /\ last'.feature # <<>>
            /\ \A i \in Rows : Orthogonal(last'.feature, StoredFeature(i)))
          => (last'.ret = -1 /\ last'.message = MSG_NO_MATCH)

\* C4 as claimed: the round trip holds for every non-zero feature f1
C4_Original == [][RoundTrip(NonZero)]_vars

\* C4 as amended: the round trip holds for every feature f1 of norm at least
\* 1e-6: enrollFace(f1) with no matching record succeeds with a new id k,
\* recognizeFace(f1) right after returns k, enrollFace(f1) again is rejected as
\* duplicate, and recognizeFace(f2) for f2 orthogonal to every stored vector
\* returns no match
C4_RoundTrip == [][RoundTrip(NormAtLeastEps)]_vars

\* a feature enrolled as the second record was recognised under its new id
C4_Witness ==
    /\ last.op = "recognize"
    /\ Len(faces) = 2
    /\ last.ret = faces[2][1]
    /\ StoredFeature(2) = last.feature
    /\ NormAtLeastEps(last.feature)

\* the best stored record has similarity exactly 0.6f to f
BestIsThreshold(f) ==
    /\ \E i \in Rows : SimTo(f, i) = SIMILARITY_THRESHOLD
    /\ \A i \in Rows : ~FLess(SIMILARITY_THRESHOLD, SimTo(f, i))

ScanStep == last'.op \in {"enroll", "recognize"} /\ Ready /\ last'.feature # <<>>

\* the division of calculateSimilarity is reached for f and row i
Computable(f, i) == similarityRun(f, StoredFeature(i)).divided

EnrollSuccess == last'.op = "enroll" /\ last'.ret # -1

StoredDim(i) == Len(faces[i][2]) \div 4

\* C11: all stored records have the same number of floats (enrollFace writes
\* nothing for a query whose dimensionality differs from the records stored)
C11_UniformDimension == \A i, j \in Rows : StoredDim(i) = StoredDim(j)

----------------------------------------------------------------------------
(* Claims about RetinaFace (specification SpecRetina)                      *)

\* ceil(a / b) for positive integers
CeilDiv(a, b) == (a + b - 1) \div b

\* the anchors of level k: ceil(320 / stride)^2 cells with |min_sizes[k]| anchors each
LevelCount(k) ==
    CeilDiv(MODEL_HEIGHT, strides[k]) * CeilDiv(MODEL_WIDTH, strides[k]) * Len(min_sizes[k])

\* the closed-form total: the sum over the levels
ClosedFormCount == LevelCount(1) + LevelCount(2) + LevelCount(3)

\* init() has returned 0 in this step
InitSucceeds == shot'.op = "init" /\ shot'.ret = 0

\* C12: after every init() that succeeds the anchor table holds exactly the closed-form
\* total of 4200 anchors, and an init() repeated on an initialised object leaves the
\* table as it was (same count, same order)
C12_AnchorCount ==
    [][InitSucceeds =>
          /\ Len(priors') = ClosedFormCount
          /\ Len(priors') = 4200
          /\ (ctx # 0 => priors' = priors)]_vars

C12_Witness == shot.op = "init" /\ shot.ret = 0 /\ ctx # 0 /\ Len(priors) = 4200

\* the float nearest to n / d for positive integers n and d
NearestFloat(n, d) == FDiv(FromInt(n, 0), FromInt(d, 0))

\* the anchor of (level k, row, col, m-th min-size): its centre (col + 0.5) * stride / 320,
\* (row + 0.5) * stride / 320 and its size minSize / 320, each as the nearest float
ClosedFormPrior(k, row, col, m) ==
    << NearestFloat((2 * col + 1) * strides[k], 2 * MODEL_WIDTH),
       NearestFloat((2 * row + 1) * strides[k], 2 * MODEL_HEIGHT),
       NearestFloat(min_sizes[k][m], MODEL_WIDTH),
       NearestFloat(min_sizes[k][m], MODEL_HEIGHT) >>

\* the level of the n-th anchor (from 1) and the number of anchors of the levels before it
LevelOf(n) == IF n <= LevelCount(1) THEN 1 ELSE IF n <= LevelCount(1) + LevelCount(2) THEN 2 ELSE 3

LevelStart(k) == IF k = 1 THEN 0 ELSE IF k = 2 THEN LevelCount(1) ELSE LevelCount(1) + LevelCount(2)

\* the n-th anchor in the order level, row, column, min-size; r counts from 0 in level k
AnchorInLevel(k, r) ==
    ClosedFormPrior(k, (r \div Len(min_sizes[k])) \div CeilDiv(MODEL_WIDTH, strides[k]),
                    (r \div Len(min_sizes[k])) % CeilDiv(MODEL_WIDTH, strides[k]),
                    (r % Len(min_sizes[k])) + 1)

ClosedFormPriors ==
    [n \in 1..ClosedFormCount |-> AnchorInLevel(LevelOf(n), n - LevelStart(LevelOf(n)) - 1)]

\* C13: the anchors are in the order stride level, grid row, grid column, min-size, the
\* grid has ceil(dim / stride) cells each way, and the anchor of (level, row, col, minSize)
\* is cx = (col + 0.5) * stride / 320, cy = (row + 0.5) * stride / 320, s = minSize / 320
C13_AnchorOrder == ctx # 0 => priors = ClosedFormPriors

C13_Witness == ctx # 0 /\ Len(priors) = ClosedFormCount /\ shot.op = "init"

\* getAlignedFaceFromCamera has called detect, which ran to its end
Detected ==
    /\ shot.op = "aligned"
    /\ shot.detected
    /\ shot.run.ret = 0
    /\ tensors = WellShaped

\* the face channel of the scores of anchor a (from 0)
FaceScoreOf(a) == scene.out[a].score[2]

\* the anchors whose face score is at least 0.5 (the network reports zero for the rest)
FaceAbove == {a \in DOMAIN scene.out : FGeq(FaceScoreOf(a), FHalf)}

\* the n-th smallest element of a set of numbers
NthSmallest(S, n) == CHOOSE a \in S : Cardinality({b \in S : b < a}) = n - 1

\* C14: detect emits a candidate for anchor i iff score[i][1] >= 0.5, and the score of
\* the candidate is the face channel score[i][1]: the candidates are those of the
\* anchors with a face score of at least 0.5, in increasing i
C14_ScoreThreshold ==
    Detected =>
        /\ Len(shot.run.proposals) = Cardinality(FaceAbove)
        /\ \A n \in 1..Len(shot.run.proposals) :
              shot.run.proposals[n].score = FaceScoreOf(NthSmallest(FaceAbove, n))

C14_Witness ==
    /\ Detected
    /\ \E a \in FaceAbove : FaceScoreOf(a) = FHalf
    /\ \E a \in DOMAIN scene.out \ FaceAbove : FGeq(scene.out[a].score[1], FHalf)

\* level, row, column and min-size of anchor a (from 0) in the order of C13
AnchorLevel(a) == LevelOf(a + 1)

AnchorCell(a) == ((a - LevelStart(AnchorLevel(a))) \div Len(min_sizes[AnchorLevel(a)]))

AnchorRow(a) == AnchorCell(a) \div CeilDiv(MODEL_WIDTH, strides[AnchorLevel(a)])

AnchorCol(a) == AnchorCell(a) % CeilDiv(MODEL_WIDTH, strides[AnchorLevel(a)])

AnchorMinSize(a) ==
    min_sizes[AnchorLevel(a)][((a - LevelStart(AnchorLevel(a))) % Len(min_sizes[AnchorLevel(a)])) + 1]

\* box has exactly the size of anchor a scaled to the frame, and its centre
\* x + width / 2, y + height / 2 is exactly the centre of anchor a scaled to the frame
ExactAnchorBox(box, a, frame) ==
    /\ MODEL_WIDTH * box[3] = AnchorMinSize(a) * frame.cols
    /\ MODEL_HEIGHT * box[4] = AnchorMinSize(a) * frame.rows
    /\ MODEL_WIDTH * (2 * box[1] + box[3]) =
          (2 * AnchorCol(a) + 1) * strides[AnchorLevel(a)] * frame.cols
    /\ MODEL_HEIGHT * (2 * box[2] + box[4]) =
          (2 * AnchorRow(a) + 1) * strides[AnchorLevel(a)] * frame.rows

\* C15: with an all-zero loc vector the decoded box has exactly the anchor's centre and
\* size, scaled to the frame
C15_IdentityDecode ==
    Detected =>
        \A n \in 1..Len(shot.run.proposals) :
            scene.out[NthSmallest(FaceAbove, n)].loc = NoRegression =>
                ExactAnchorBox(shot.run.proposals[n].box, NthSmallest(FaceAbove, n), scene.frame)

\* landmark k (from 0) of anchor a: lx = cx + landm[a][2k] * v0 * s_w and
\* ly = cy + landm[a][2k+1] * v0 * s_h with v0 = 0.1, scaled by the frame's size
ClaimedLandmark(p, landm, k, frame) ==
    << FMul(FAdd(p[1], FMul(FMul(landm[2 * k + 1], VARIANCE0), p[3])), FromInt(frame.cols, 0)),
       FMul(FAdd(p[2], FMul(FMul(landm[2 * k + 2], VARIANCE0), p[4])), FromInt(frame.rows, 0)) >>

\* the candidate of anchor a from anchor a, loc[a], score[a] and landm[a]
ClaimedCandidate(p, entry, frame) ==
    FaceInfo(DecodeBox(DecodeCenter(p[1], entry.loc[1], p[3]), DecodeCenter(p[2], entry.loc[2], p[4]),
                       DecodeSize(p[3], entry.loc[3]), DecodeSize(p[4], entry.loc[4]),
                       FromInt(frame.cols, 0), FromInt(frame.rows, 0)),
             entry.score[2],
             [k \in 1..5 |-> ClaimedLandmark(p, entry.landm, k - 1, frame)])

\* C16: the candidate of anchor i is decoded from anchor i with loc[i], score[i] and
\* landm[i], landmark k being lx = cx + landm[i][2k] * v0 * s_w,
\* ly = cy + landm[i][2k+1] * v0 * s_h (v0 = 0.1), then scaled to the frame
C16_PositionalDecode ==
    Detected =>
        \A n \in 1..Len(shot.run.proposals) :
            shot.run.proposals[n] =
                ClaimedCandidate(ClosedFormPriors[NthSmallest(FaceAbove, n) + 1],
                                 scene.out[NthSmallest(FaceAbove, n)], scene.frame)

C16_Witness ==
    /\ Detected
    /\ Len(shot.run.proposals) >= 2
    /\ 0 \notin FaceAbove
    /\ \E a \in FaceAbove : scene.out[a].loc = ShiftRegression
    /\ \E a \in FaceAbove : scene.out[a].landm = LandmSpread

\* intersection over union of two boxes above and below 0.4 = 2/5
IoUAbove(a, b) ==
    5 * RectArea(RectIntersect(a, b)) >
        2 * (RectArea(a) + RectArea(b) - RectArea(RectIntersect(a, b)))

IoUBelow(a, b) ==
    5 * RectArea(RectIntersect(a, b)) <
        2 * (RectArea(a) + RectArea(b) - RectArea(RectIntersect(a, b)))

\* f is among the faces detect hands out
InOutput(f) == \E n \in 1..Len(shot.run.pushed) : shot.run.pushed[n] = f

\* the place of an element in a sequence without repetitions
IndexIn(seq, f) == CHOOSE i \in 1..Len(seq) : seq[i] = f

\* the output is in descending score order, equal scores in the order of the candidates
OutputOrdered(pushed, proposals) ==
    \A n, m \in 1..Len(pushed) :
        n < m => \/ FLess(pushed[m].score, pushed[n].score)
                 \/ /\ pushed[m].score = pushed[n].score
                    /\ IndexIn(proposals, pushed[n]) < IndexIn(proposals, pushed[m])

\* the claim for the two candidates p (the higher score, if they differ) and q
SuppressedPair(p, q) ==
    /\ (IoUAbove(p.box, q.box) /\ FLess(q.score, p.score)) => (InOutput(p) /\ ~InOutput(q))
    /\ IoUBelow(p.box, q.box) => (InOutput(p) /\ InOutput(q))

\* C17: of two candidates with IoU > 0.4 and different scores only the higher-scoring one
\* is in the output; two candidates with IoU < 0.4 are both in the output; the output is
\* in descending score order, ties in the original order
C17_Suppression ==
    Detected =>
        /\ Len(shot.run.proposals) = 2 =>
              /\ SuppressedPair(shot.run.proposals[1], shot.run.proposals[2])
              /\ SuppressedPair(shot.run.proposals[2], shot.run.proposals[1])
        /\ OutputOrdered(shot.run.pushed, shot.run.proposals)

\* the area of the n-th face handed out
AreaOf(n) == RectArea(shot.run.pushed[n].box)

\* C18: the face selected for alignment has the largest box area, the first such face in
\* detect's output order when several have it; with no face detected the result is an
\* empty image and no face is aligned
C18_LargestFace ==
    (shot.op = "aligned" /\ shot.detected) =>
        IF shot.run.pushed = <<>>
        THEN shot.best = 0 /\ shot.aligned = EmptyMat
        ELSE /\ shot.best \in 1..Len(shot.run.pushed)
             /\ \A n \in 1..Len(shot.run.pushed) : AreaOf(n) <= AreaOf(shot.best)
             /\ \A n \in 1..(shot.best - 1) : AreaOf(n) < AreaOf(shot.best)

C18_Witness ==
    /\ Detected
    /\ Len(shot.run.pushed) >= 2
    /\ shot.best = 1
    /\ \E n \in 2..Len(shot.run.pushed) : AreaOf(n) = AreaOf(1)

\* C19: preprocessFace returns a 112x112 image whenever a transform is estimated (as it is
\* for the five reference points) and an empty image otherwise, never another size
C19_AlignedSize ==
    /\ preprocessFace(Mat(1280, 720), REFERENCE_PTS_112) = Mat(112, 112)
    /\ (shot.op = "aligned" /\ shot.best # 0) =>
          IF estimateAffinePartial2D(shot.run.pushed[shot.best].landmarks, REFERENCE_PTS_112)
          THEN shot.aligned = Mat(112, 112)
          ELSE shot.aligned = EmptyMat

C19_Witness == shot.op = "aligned" /\ shot.best # 0 /\ shot.aligned = Mat(112, 112)

\* C20: when detect fails, what getAlignedFaceFromCamera returns differs from what it
\* returns when no face is detected (an empty image)
C20_FailureDistinct ==
    (shot.op = "aligned" /\ shot.detected /\ shot.run.ret = -1) => shot.aligned # EmptyMat

\* p is handed out, or a face handed out with a score at least as high overlaps it
\* with an IoU above 0.4
KeptOrCovered(p) ==
    \/ InOutput(p)
    \/ \E m \in 1..Len(shot.run.pushed) :
          /\ IoUAbove(p.box, shot.run.pushed[m].box)
          /\ FGeq(shot.run.pushed[m].score, p.score)

\* C26: every candidate that passes the decoder's filter (score >= 0.5, 0.5 included) is
\* in detect's output or has an IoU above 0.4 with an output face whose score is at
\* least as high
C26_NoScoreLoss ==
    Detected => \A n \in 1..Len(shot.run.proposals) : KeptOrCovered(shot.run.proposals[n])

\* the step is a successful enrollFace that adds exactly one record after the others
EnrollAdds ==
    /\ last'.op = "enroll"
    /\ last'.ret > 0
    /\ Len(faces') = Len(faces) + 1
    /\ \A i \in 1..Len(faces) : faces'[i] = faces[i]

\* the step is a clearAll that leaves no record
ClearRemoves == last'.op = "clearAll" /\ faces' = <<>>

\* C27: the collection changes only through a successful enrollFace (one record more,
\* the others unchanged) or clearAll (no record left); recognizeFace, getFaceCount,
\* findMostSimilar and a failed or rejected enrollFace leave the records unchanged
C27_OnlyEnrollAndClear ==
    [][/\ faces' # faces => (EnrollAdds \/ ClearRemoves)
       /\ (last'.op \in {"recognize", "count", "init"} \/ last'.ret < 0) => faces' = faces]_vars

C27_Witness ==
    /\ last.op = "enroll"
    /\ last.message = MSG_DUPLICATE
    /\ faces # <<>>

\* C21: when the inference engine yields fewer than three output tensors, or tensors
\* whose row count differs from the anchor count, detect returns a failure and hands
\* out no face
C21_ShapeMismatchFails ==
    (shot.op = "aligned" /\ shot.detected /\ tensors # WellShaped) =>
        (shot.run.ret = -1 /\ shot.run.pushed = <<>>)

----------------------------------------------------------------------------
(* Claims about CameraManager (specification SpecCamera)                   *)

\* C22: the frame handed to the algorithm layer is a consistent snapshot: while
\* getLatestFrame copies the buffered frame under the mutex the capture thread does not
\* write into that pixel buffer, and the copy handed out is of one frame
C22_ExclusiveSnapshot ==
    /\ ~(ui_pc = "clone" /\ run_pc = "retrieve" /\ tempFrame = m_currentFrame)
    /\ got = "true" => outputFrame[1] = outputFrame[2]

\* C23: getLatestFrame returns true only when the camera is open and a frame has been
\* captured (so it returns false when the camera is not open, closeCamera included, or
\* there is no frame)
C23_TrueOnlyWhenOpen ==
    [][(ui_pc = "clone" /\ ui_pc' = "idle" /\ got' = "true") =>
          (m_cap = "open" /\ m_currentFrame # 0)]_vars

\* C28: the capture device is released only after run() has returned, so no m_cap.read
\* runs during or after m_cap.release
C28_CloseWaits ==
    [][/\ (m_cap = "open" /\ m_cap' = "closed") => run_pc = "off"
       /\ (run_pc = "read" /\ run_pc' # "read") => m_cap = "open"]_vars

----------------------------------------------------------------------------
(* Claims about concurrent enrollFace calls (specification SpecRace)       *)

\* caller t has returned and its duplicate check found no similar record
Passed(t) ==
    /\ calls[t].pc = "done"
    /\ calls[t].found # <<>>
    /\ ~enrollIsDuplicate(calls[t].found[1], calls[t].found[2])

HasRow(id, feature) == \E i \in 1..Len(faces) : faces[i] = <<id, featureToBlob(feature)>>

\* C25: the duplicate check and the insert of enrollFace are not one atomic step: of
\* two concurrent calls that both passed the check both insert, whatever the other
\* call inserted in between (so two calls with one feature leave two records whose
\* similarity is 0.6 or more)
C25_CheckThenInsert ==
    (storage = "ok" /\ \A t \in Callers : Passed(t)) =>
        /\ \A t \in Callers : calls[t].ret > 0 /\ HasRow(calls[t].ret, calls[t].feature)
        /\ calls[1].ret # calls[2].ret

C25_Witness ==
    /\ storage = "ok"
    /\ \A t \in Callers : Passed(t) /\ calls[t].ret > 0
    /\ calls[1].feature = calls[2].feature
    /\ HasRow(calls[1].ret, calls[1].feature)
    /\ HasRow(calls[2].ret, calls[1].feature)
    /\ FGeq(calculateSimilarity(calls[1].feature, calls[2].feature), SIMILARITY_THRESHOLD)

----------------------------------------------------------------------------
(* Claims about the button slots (specification SpecUi)                    *)

\* the slots that are inside the inference sequence entered at place pc
Inferring(pc) == {i \in DOMAIN acts : acts[i].pc = pc}

\* C24: the calls into each inference context are serialized: no two "set input, run,
\* read output" sequences on the context of RetinaFace overlap, nor two on the context
\* of MobileFaceNet
C24_Serialized ==
    /\ Cardinality(Inferring("detect")) <= 1
    /\ Cardinality(Inferring("infer")) <= 1

C24_Witness ==
    /\ acts # <<>>
    /\ acts[1].pc \in {"detect", "infer"}
    /\ queue # <<>>

\* the steps of a slot in the order of its code
StepsOf(button) ==
    <<"align", "extract", IF button = "btnEntry" THEN "enrollFace" ELSE "recognizeFace">>

IsPrefix(s, t) == Len(s) <= Len(t) /\ SubSeq(t, 1, Len(s)) = s

\* C29: a button slot runs its steps in order and stops at the first failure:
\* extractFeature is called only after a non-empty aligned face, enrollFace or
\* recognizeFace only after extractFeature returned 0 with a non-empty feature, and
\* every run of a slot sets exactly one text on the status label
C29_OrderedSteps ==
    finished # NoAct =>
        /\ Len(finished.said) = 1
        /\ IsPrefix(finished.called, StepsOf(finished.button))
        /\ Len(finished.called) >= 2 <=> finished.alignedFace # EmptyMat
        /\ Len(finished.called) = 3 <=>
               (Len(finished.called) >= 2 /\ finished.ret = 0 /\ finished.feature # <<>>)

C29_Witness ==
    /\ finished.button = "btnEntry"
    /\ Len(finished.called) = 3
    /\ finished.said = <<MSG_ENROLLED>>

====
